---- MODULE Spec2Model ----
(***************************************************************************)
(* A model of the Test Adapter Converter: the bridge between the legacy    *)
(* Test Adapter protocol and the native VS Code testing API.               *)
(*                                                                         *)
(* Two versions of TestConverter live in the sources and both are          *)
(* modelled:                                                               *)
(*   - the current converter (one controller per adapter, trees rebuilt    *)
(*     with TestItemCollection.replace, synchronous run listener).  Its    *)
(*     behaviours are the specification Spec;                              *)
(*   - the generation-stamping converter of src/src/testConverter.ts       *)
(*     (items reconciled in place, await-based run).  Its behaviours are   *)
(*     the specification SpecGen.                                          *)
(*                                                                         *)
(* Test items are objects: an item is an index into a heap (a sequence of  *)
(* records), so that "the same item object" is "the same index".           *)
(***************************************************************************)
EXTENDS Integers, Sequences, FiniteSets, TLC

(***************************************************************************)
(* Bounds of the model.                                                    *)
(***************************************************************************)
\* discovery 'finished' events delivered to one converter
MaxLoads == 1
\* discovery 'finished' events when only discovery is looked at
MaxPasses == 3
\* discovery passes of other converters that share generationCounter
MaxOtherPasses == 1
\* run requests issued on one converter
MaxRuns == 1
\* test state events (test / suite / finished) delivered to one converter
MaxStateEvents == 2
MaxGenLoads == 1
MaxGenRuns == 1
MaxGenStateEvents == 3
\* run requests, calls of run() and state events of the specification of
\* run requests
MaxRequests == 1
MaxRunCalls == 2
MaxRequestStateEvents == 2
\* state events of a run session after the event that starts it
MaxSessionEvents == 2
\* converters constructed and calls of the run handler of the factory
MaxConverters == 2
MaxHandlerCalls == 1
\* run requests that may be open at once on the current converter
MaxConcurrentRuns == 2
\* discovery passes and calls of refresh() of one generation-stamping
\* converter when its busy flag is looked at
MaxBusyPasses == 2
MaxBusyRefreshes == 2
\* discovery passes before and between the retirement events
MaxRetireLoads == 2
\* calls of refresh() of the factory
MaxRefreshes == 2
\* commands and configuration changes handled by the extension
MaxCommands == 4

(***************************************************************************)
(* Optional values: undefined is the empty tuple, a value v is <<v>>.      *)
(***************************************************************************)
None == <<>>
Some(v) == <<v>>
\* A text is a sequence of characters.  JavaScript truthiness of an optional
\* text: undefined and the empty text are falsy
Truthy(o) == o # None /\ o[1] # <<>>

\* the elements of a sequence
Range(s) == {s[i] : i \in 1..Len(s)}

\* the subsequence of s at the indices in idx, in order
RECURSIVE Pick(_, _, _)
Pick(s, idx, i) ==
  IF i > Len(s) THEN <<>>
  ELSE (IF i \in idx THEN <<s[i]>> ELSE <<>>) \o Pick(s, idx, i + 1)

(***************************************************************************)
(* File names and URIs.  A file name is a sequence of characters.          *)
(***************************************************************************)
SchemeFirst ==
  {"a","b","c","d","e","f","g","h","i","j","k","l","m",
   "n","o","p","q","r","s","t","u","v","w","x","y","z"}
\* [a-z0-9+-.]: the range +-. holds the characters + , - .
SchemeRest ==
  SchemeFirst \cup {"0","1","2","3","4","5","6","7","8","9"} \cup {"+", ",", "-", "."}

\* the positions k of a colon that ends a match of /^[a-z][a-z0-9+-.]+:/
SchemeEnds(file) ==
  {k \in 3..Len(file) :
     /\ file[k] = ":"
     /\ file[1] \in SchemeFirst
     /\ \A i \in 2..(k - 1) : file[i] \in SchemeRest}

schemeMatcher(file) == SchemeEnds(file) # {}

\* vscode.Uri.parse(file) / vscode.Uri.file(file)
fileToUri(file) ==
  IF schemeMatcher(file)
  THEN LET k == CHOOSE k \in SchemeEnds(file) : \A j \in SchemeEnds(file) : k <= j
       IN  [scheme |-> SubSeq(file, 1, k - 1), path |-> SubSeq(file, k + 1, Len(file))]
  ELSE [scheme |-> <<"f","i","l","e">>, path |-> file]

(***************************************************************************)
(* Descriptors of the legacy protocol (TestInfo / TestSuiteInfo).          *)
(***************************************************************************)
TestInfo(id, label, file, line, errored, message) ==
  [type |-> "test", id |-> id, label |-> label, description |-> None,
   file |-> file, line |-> line, errored |-> errored, message |-> message]

TestSuiteInfo(id, label, description, children) ==
  [type |-> "suite", id |-> id, label |-> label, description |-> description,
   file |-> None, line |-> None, errored |-> FALSE, message |-> None,
   children |-> children]

FileA == <<"/", "a">>
FileV == <<"v", "f", ":", "a">>

InfoA  == TestInfo("a", "A", Some(FileA), Some(3), FALSE, None)
InfoA2 == TestInfo("a", "A2", Some(FileV), None, TRUE, Some("boom"))
InfoB  == TestInfo("b", "B", None, None, FALSE, None)
InfoC  == TestInfo("c", "C", None, Some(7), FALSE, None)

\* suite S with tests A and B
SuiteAB == TestSuiteInfo("root", "S", None, <<InfoA, InfoB>>)
\* B removed, C added, A reported with other properties
SuiteAC == TestSuiteInfo("root", "S", None, <<InfoA2, InfoC>>)
\* a nested suite
SuiteNested ==
  TestSuiteInfo("root", "N", None,
    <<TestSuiteInfo("s", "Sub", Some("d"), <<InfoA, InfoB>>), InfoC>>)
\* a suite in a suite below the root: the tests a and b have two ancestors
\* in the tree, the test c has one
SuiteDeep ==
  TestSuiteInfo("root", "R", None,
    <<TestSuiteInfo("s", "Sub", None,
        <<TestSuiteInfo("t", "Inner", None, <<InfoA, InfoB>>), InfoC>>)>>)
\* duplicate ids in one list: suite s twice, with different subtrees
SuiteDup ==
  TestSuiteInfo("root", "D", None,
    <<TestSuiteInfo("s", "Sub1", None, <<InfoA>>),
      TestSuiteInfo("s", "Sub2", None, <<InfoB>>),
      InfoA2>>)

LoadSuites == {SuiteAB, SuiteAC, SuiteNested, SuiteDup}

LoadFailed == <<"l", "o", "a", "d">>

\* TestLoadFinishedEvent: an optional suite and an optional error message
LoadFinishedEvents ==
  {[type |-> "finished", suite |-> Some(s), errorMessage |-> None] : s \in LoadSuites}
  \cup {[type |-> "finished", suite |-> None, errorMessage |-> m] :
          m \in {None, Some(<<>>), Some(LoadFailed)}}
  \cup {[type |-> "finished", suite |-> Some(SuiteAB), errorMessage |-> Some(LoadFailed)]}

(***************************************************************************)
(* State events of the legacy protocol (adapter.testStates).               *)
(***************************************************************************)
\* evt.testRunId is optional
RunIds == {None, Some("T1")}
\* evt.testRunId ?? ''
RunKey(evt) == IF evt.testRunId = None THEN "" ELSE evt.testRunId[1]

\* evt.test / evt.suite is an id or a full descriptor
ById(id) == [kind |-> "string", id |-> id]
ByInfo(info) == [kind |-> "object", info |-> info]
RefId(ref) == IF ref.kind = "string" THEN ref.id ELSE ref.info.id

\* a test only known at run time
InfoN == TestInfo("n", "N", None, None, FALSE, None)
\* a suite only known at run time
InfoDyn == TestSuiteInfo("dyn", "Dyn", None, <<InfoN>>)

\* failure text with both kinds of line ending
Failure == <<"E", "\n", "x", "\r", "\n">>
Decoration1 == [message |-> <<"d">>, file |-> Some(FileV), line |-> 10]
Decoration2 == [message |-> <<"e">>, file |-> None, line |-> 2]

\* evt.state of a TestEvent
TestStateNames == {"running", "passed", "failed", "errored", "skipped", "completed"}

TestEvent(test, state, message, decorations, runId) ==
  [type |-> "test", test |-> test, state |-> state, message |-> message,
   decorations |-> decorations, testRunId |-> runId]

\* the test events the adapter fires in the model: every state on a known
\* test, failure text with and without decorations, an id the converter
\* does not know, a test only known at run time, and an event without run id
TestEvents ==
  {TestEvent(ById("a"), s, None, None, Some("T1")) : s \in TestStateNames}
  \cup {TestEvent(ById("a"), "failed", Some(Failure), d, Some("T1")) :
          d \in {None, Some(<<Decoration1, Decoration2>>)}}
  \cup {TestEvent(ById("zz"), "passed", None, None, Some("T1")),
        TestEvent(ByInfo(InfoN), "running", None, None, Some("T1")),
        TestEvent(ById("b"), "passed", Some(Failure), None, None)}

SuiteEvent(suite, state, runId) ==
  [type |-> "suite", suite |-> suite, state |-> state, testRunId |-> runId]

SuiteEvents ==
  {SuiteEvent(ById("s"), s, Some("T1")) : s \in {"running", "completed"}}
  \cup {SuiteEvent(ByInfo(InfoDyn), "running", Some("T1")),
        SuiteEvent(ById("s"), "running", None)}

StartedEvents == {[type |-> "started", testRunId |-> rid] : rid \in RunIds}
FinishedEvents == {[type |-> "finished", testRunId |-> rid] : rid \in RunIds}

(***************************************************************************)
(* State.                                                                  *)
(***************************************************************************)
VARIABLES
  \* ---- the legacy adapter ----
  adapter,              \* the optional methods the adapter has
  adapterCalls,         \* the calls made on the adapter, in order
  \* ---- a converter (either version) ----
  items,                \* the heap of vscode.TestItem objects
  itemsById,            \* Map<string, TestItem>
  tasksByRunId,         \* Map<string, TestRun> / Map<string, IRunningTaskData>
  runs,                 \* the calls of run(): their arguments and progress
  testRuns,             \* the vscode.TestRun objects: the calls made on each
  requests,             \* the run requests handled: their cancellation tokens
  \* ---- the current converter only ----
  controllerItems,      \* controller.items: the top-level collection
  metadata,             \* WeakMap<TestItem, ITestMetadata>
  error,                \* TestConverter._error
  runningSuiteByRunId,  \* Map<string, TestItem>
  doneDiscovery,        \* whether TestConverter.doneDiscovery is set
  progress,             \* the state of each withProgress indicator opened
  \* ---- the generation-stamping converter only ----
  generationCounter,    \* the module's generationCounter
  shouldPromptForUiDisable, \* the module's flag of that name
  prompts,              \* the prompts shown to disable the Test Explorer UI
  \* ---- the factory of generation-stamping converters ----
  converters,           \* TestConverterFactory.converters, in insertion order
  converterObjs,        \* the TestConverter objects constructed so far
  converterRuns,        \* the calls of TestConverter.run made by the run handler
  \* ---- the extension (src/src/extension.ts) ----
  extension,            \* the variable factory of activate(), the factories
                        \* made, context.subscriptions, and the calls made on
                        \* the hub and on the factories
  \* ---- the environment ----
  loads,                \* discovery 'finished' events delivered so far
  stateEvents,          \* state events delivered so far
  suitesRunning,        \* the pairs of a run id and the id of a suite that the
                        \* adapter has reported running and not completed since
  adapterRuns,          \* how far the adapter is with each run or debug call
                        \* it received: the call's place in adapterCalls
                        \* mapped to the phase "started" or "finished" and
                        \* to the number of calls of run() made when
                        \* 'started' was fired
  discovering,          \* whether the adapter of the generation-stamping
                        \* converter has fired a 'started' discovery event
                        \* and no 'finished' one since
  last,                 \* the event handled last
  \* ---- the generation-stamping converter only ----
  refreshing,           \* the calls of refresh() that await adapter.load()
  \* ---- both converters ----
  invalidations,        \* the calls that invalidate test results, made for
                        \* the latest retirement event
  \* ---- the factory ----
  ctrl                  \* this.ctrl of the factory: None, or the controller
                        \* with its disposed flag

vars == <<adapter, adapterCalls, items, itemsById, tasksByRunId, runs, testRuns, requests,
          controllerItems, metadata, error, runningSuiteByRunId, doneDiscovery,
          progress, generationCounter, shouldPromptForUiDisable, prompts,
          converters, converterObjs, converterRuns, extension, loads, stateEvents,
          suitesRunning,
          last, adapterRuns, discovering, refreshing, invalidations,
          ctrl>>

\* the id of the current converter's controller (controller.id)
controllerId == "test-adapter-ctrl-1"

(***************************************************************************)
(* The tree of the current converter.                                      *)
(***************************************************************************)
\* the program's state, as the operations below thread it
Here ==
  [adapterCalls |-> adapterCalls, items |-> items, itemsById |-> itemsById,
   tasksByRunId |-> tasksByRunId, runs |-> runs, testRuns |-> testRuns,
   requests |-> requests,
   controllerItems |-> controllerItems, metadata |-> metadata, error |-> error,
   runningSuiteByRunId |-> runningSuiteByRunId, doneDiscovery |-> doneDiscovery,
   progress |-> progress, generationCounter |-> generationCounter,
   shouldPromptForUiDisable |-> shouldPromptForUiDisable, prompts |-> prompts,
   converters |-> converters, converterObjs |-> converterObjs,
   converterRuns |-> converterRuns, extension |-> extension,
   refreshing |-> refreshing, invalidations |-> invalidations,
   ctrl |-> ctrl]

\* the program's state becomes st
Becomes(st) ==
  /\ adapterCalls' = st.adapterCalls
  /\ items' = st.items
  /\ itemsById' = st.itemsById
  /\ tasksByRunId' = st.tasksByRunId
  /\ runs' = st.runs
  /\ testRuns' = st.testRuns
  /\ requests' = st.requests
  /\ controllerItems' = st.controllerItems
  /\ metadata' = st.metadata
  /\ error' = st.error
  /\ runningSuiteByRunId' = st.runningSuiteByRunId
  /\ doneDiscovery' = st.doneDiscovery
  /\ progress' = st.progress
  /\ generationCounter' = st.generationCounter
  /\ shouldPromptForUiDisable' = st.shouldPromptForUiDisable
  /\ prompts' = st.prompts
  /\ converters' = st.converters
  /\ converterObjs' = st.converterObjs
  /\ converterRuns' = st.converterRuns
  /\ extension' = st.extension
  /\ refreshing' = st.refreshing
  /\ invalidations' = st.invalidations
  /\ ctrl' = st.ctrl

\* controller.createTestItem(id, label, uri)
createTestItem(id, label, uri) ==
  [id |-> id, label |-> label, uri |-> uri, description |-> None, range |-> None,
   error |-> None, parent |-> 0, children |-> <<>>]

\* the mutant of unique that keeps the last element of each projection
uniqueKeepsLast(arr) ==
  Pick(arr,
       {i \in 1..Len(arr) : \A j \in (i + 1)..Len(arr) : arr[j].id # arr[i].id},
       1)

\* unique(arr, project), the projection being c => c.id of its one call: the
\* first element of each projection
unique(arr) ==
  Pick(arr,
       {i \in 1..Len(arr) : \A j \in 1..(i - 1) : arr[j].id # arr[i].id},
       1)

\* the items of the collection of owner (0: controller.items), in order
gatherChildrenOf(st, owner) ==
  IF owner = 0 THEN st.controllerItems ELSE st.items[owner].children

\* TestItemCollection.replace(list) on the collection of owner (0: controller.items)
Replace(st, owner, list) ==
  LET reparented ==
        [o \in 1..Len(st.items) |->
           IF o \in Range(list) THEN [st.items[o] EXCEPT !.parent = owner]
           ELSE IF o = owner THEN [st.items[o] EXCEPT !.children = list]
           ELSE st.items[o]]
  IN  [st EXCEPT !.items = reparented,
                 !.controllerItems = IF owner = 0 THEN list ELSE @]

\* TestItemCollection.add(item) on the children of owner: a child with the
\* same id is replaced where it stands
Add(st, owner, item) ==
  LET old  == st.items[owner].children
      same == {i \in 1..Len(old) : st.items[old[i]].id = st.items[item].id}
      list == IF same = {} THEN Append(old, item)
              ELSE [i \in 1..Len(old) |-> IF i \in same THEN item ELSE old[i]]
  IN  [st EXCEPT !.items[owner].children = list, !.items[item].parent = owner]

RECURSIVE createTest(_, _, _)
RECURSIVE CreateAll(_, _, _, _)

\* the mutant of syncItemChildren that adds the items to those of the collection
syncItemChildrenAdds(st, owner, children, defaultUri) ==
  LET made == CreateAll(st, unique(children), defaultUri, <<>>)
  IN  Replace(made.st, owner, gatherChildrenOf(st, owner) \o made.list)

\* syncItemChildren(collection, children, defaultUri)
syncItemChildren(st, owner, children, defaultUri) ==
  LET made == CreateAll(st, unique(children), defaultUri, <<>>)
  IN  Replace(made.st, owner, made.list)

\* list.map(item => this.createTest(item, defaultUri))
CreateAll(st, list, defaultUri, acc) ==
  IF list = <<>> THEN [st |-> st, list |-> acc]
  ELSE LET one == createTest(st, Head(list), defaultUri)
       IN  CreateAll(one.st, Tail(list), defaultUri, Append(acc, one.test))

\* createTest(item, defaultUri): the new state and the item created
createTest(st, item, defaultUri) ==
  LET test == Len(st.items) + 1
      obj  == [createTestItem(item.id, item.label,
                              IF Truthy(item.file)
                              THEN Some(fileToUri(item.file[1])) ELSE defaultUri)
                 EXCEPT !.description = item.description,
                        !.range = IF item.line # None
                                  THEN Some(<<item.line[1], 0, item.line[1] + 1, 0>>)
                                  ELSE None,
                        !.error = IF item.errored THEN item.message ELSE None]
      s1   == [st EXCEPT
                 !.items = Append(@, obj),
                 !.metadata = (test :> [isSuite |-> item.type = "suite"]) @@ @,
                 !.itemsById = (item.id :> test) @@ @]
  IN  [st   |-> IF "children" \in DOMAIN item
                THEN syncItemChildren(s1, test, item.children, None)
                ELSE s1,
       test |-> test]

\* the text recorded for a discovery error: message, separator, stack trace
ErrorText(message) == message \o <<"\n", "\n", "\n">> \o <<"Stacktrace:">>

\* the markdown link of the error node: the command and its arguments
ShowErrorLink(id) == [command |-> "testExplorerConverter.showError", args |-> <<id>>]

\* syncTopLevel(evt), a suite being reported
SyncSuite(st, evt) == syncItemChildren(st, 0, evt.suite[1].children, None)

\* the mutant of SyncError that adds the error node to the items there are
SyncErrorAppends(st, evt) ==
  LET test == Len(st.items) + 1
      obj  == [createTestItem("error", "Test discovery failed", None)
                 EXCEPT !.error = Some(ShowErrorLink(controllerId))]
  IN  [st EXCEPT !.items = Append(@, obj),
                 !.error = Some(ErrorText(evt.errorMessage[1])),
                 !.controllerItems = Append(@, test)]

\* syncTopLevel(evt), an error message and no suite being reported
SyncError(st, evt) ==
  LET test == Len(st.items) + 1
      obj  == [createTestItem("error", "Test discovery failed", None)
                 EXCEPT !.error = Some(ShowErrorLink(controllerId))]
  IN  Replace([st EXCEPT !.items = Append(@, obj),
                         !.error = Some(ErrorText(evt.errorMessage[1]))],
              0, <<test>>)

\* the mutant of syncTopLevel that empties the tree when nothing is reported
syncTopLevelClears(st, evt) ==
  IF evt.suite # None THEN SyncSuite(st, evt)
  ELSE IF Truthy(evt.errorMessage) THEN SyncError(st, evt)
  ELSE Replace(st, 0, <<>>)

\* syncTopLevel(evt)
syncTopLevel(st, evt) ==
  IF evt.suite # None THEN SyncSuite(st, evt)
  ELSE IF Truthy(evt.errorMessage) THEN SyncError(st, evt)
  ELSE st

\* factory.getByControllerId(id): the converter whose controller has that id
getByControllerId(st, id) == IF id = controllerId THEN Some(st) ELSE None

\* the testExplorerConverter.showError command: the text it opens, if any
showError(st, id) ==
  LET converter == getByControllerId(st, id)
  IN  IF converter # None /\ Truthy(converter[1].error) THEN converter[1].error
      ELSE None

\* resolve() of the promise given to withProgress: closes the indicator that
\* is open (a promise resolves once)
Resolve(st) ==
  [st EXCEPT !.progress = [i \in 1..Len(@) |-> IF i = Len(@) THEN "closed" ELSE @[i]]]

\* the mutant of testsFinished that does not call doneDiscovery
testsFinishedUnresolved(st, evt) ==
  syncTopLevel([st EXCEPT !.doneDiscovery = FALSE, !.itemsById = <<>>], evt)

\* adapter.tests handler, case 'finished'
testsFinished(st, evt) ==
  LET s1 == IF st.doneDiscovery THEN Resolve(st) ELSE st
  IN  syncTopLevel([s1 EXCEPT !.doneDiscovery = FALSE, !.itemsById = <<>>], evt)

\* adapter.tests handler, case 'started'
testsStarted(st) ==
  IF ~st.doneDiscovery
  THEN [st EXCEPT !.progress = Append(@, "open"), !.doneDiscovery = TRUE]
  ELSE st

\* setTimeout(resolve, 30_000) of the indicator i fires
progressTimeout(st, i) == [st EXCEPT !.progress[i] = "closed"]


(***************************************************************************)
(* Runs of the current converter.                                          *)
(***************************************************************************)
\* metadata.get(test)?.isSuite
IsSuite(st, test) == test \in DOMAIN st.metadata /\ st.metadata[test].isSuite

\* gatherChildren(col), col being the collection of owner (0: controller.items)
gatherChildren(st, owner) == gatherChildrenOf(st, owner)

\* a call made on the vscode.TestRun task
Call(st, task, call) == [st EXCEPT !.testRuns[task] = Append(@, call)]

\* this.controller.createTestRun(request)
createTestRun(st) == [st EXCEPT !.testRuns = Append(@, <<>>)]

\* map.delete(key)
MapDelete(map, key) == [k \in DOMAIN map \ {key} |-> map[k]]

\* token.onCancellationRequested(listener): the requests after it; on a
\* token cancelled already the listener is called from a timer
onCancellationRequested(st, token, listener) ==
  IF st.requests[token].isCancellationRequested
  THEN [st.requests EXCEPT ![token].shortcut = @ + 1]
  ELSE [st.requests EXCEPT ![token].listeners = Append(@, listener)]

\* the mutant of Enqueued that marks the suites as well
RECURSIVE EnqueuedWithSuites(_, _)
EnqueuedWithSuites(st, queue) ==
  IF queue = <<>> THEN <<>>
  ELSE LET list == queue[Len(queue)]
           rest == SubSeq(queue, 1, Len(queue) - 1)
       IN  list \o EnqueuedWithSuites(st, rest \o [i \in 1..Len(list) |->
                                                    gatherChildren(st, list[i])])

\* the loop of the 'started' listener over its queue of lists: the items it
\* marks enqueued, in order
RECURSIVE Enqueued(_, _)
Enqueued(st, queue) ==
  IF queue = <<>> THEN <<>>
  ELSE LET list == queue[Len(queue)]
           rest == SubSeq(queue, 1, Len(queue) - 1)
       IN  SelectSeq(list, LAMBDA test : ~IsSuite(st, test))
             \o Enqueued(st, rest \o [i \in 1..Len(list) |-> gatherChildren(st, list[i])])

\* the mutant of runListener that stays subscribed after 'started'
runListenerStaysSubscribed(st, r, evt) ==
  IF evt.type # "started" THEN st
  ELSE LET marks == Enqueued(st, <<st.runs[r].testsToRun>>)
           task  == st.runs[r].run
       IN  [st EXCEPT
              !.testRuns[task] =
                 @ \o [i \in 1..Len(marks) |-> [op |-> "enqueued", test |-> marks[i]]],
              !.tasksByRunId = (RunKey(evt) :> [task |-> task, announcedTests |-> {}]) @@ @,
              !.requests = onCancellationRequested(st, st.runs[r].token, "cancel"),
              !.runs[r].onCancellationRequested = @ + 1]

\* the listener run() subscribes to adapter.testStates, for the call r of run()
runListener(st, r, evt) ==
  IF evt.type # "started" THEN st
  ELSE LET marks == Enqueued(st, <<st.runs[r].testsToRun>>)
           task  == st.runs[r].run
       IN  [st EXCEPT
              !.testRuns[task] =
                 @ \o [i \in 1..Len(marks) |-> [op |-> "enqueued", test |-> marks[i]]],
              !.tasksByRunId = (RunKey(evt) :> [task |-> task, announcedTests |-> {}]) @@ @,
              !.requests = onCancellationRequested(st, st.runs[r].token, "cancel"),
              !.runs[r].onCancellationRequested = @ + 1,
              !.runs[r].listening = FALSE]

\* the mutant of run that takes the list it is given for the tests to run
runAsGiven(st, task, testsToRun, debug, token, hasDebug) ==
  LET tests == IF testsToRun = None THEN <<>> ELSE testsToRun[1]
      s1    == [st EXCEPT !.runs = Append(@,
                  [run |-> task, testsToRun |-> tests, debug |-> debug, token |-> token,
                   listening |-> TRUE, onCancellationRequested |-> 0])]
  IN  [s1 EXCEPT !.adapterCalls = Append(@, [method |-> IF debug THEN "debug" ELSE "run",
                                             tests |-> <<>>])]

\* run(run, testsToRun, debug, token); this.controller is always set
run(st, task, testsToRun, debug, token, hasDebug) ==
  LET tests == IF testsToRun = None THEN gatherChildren(st, 0) ELSE testsToRun[1]
      ids   == [i \in 1..Len(tests) |-> st.items[tests[i]].id]
      s1    == [st EXCEPT !.runs = Append(@,
                  [run |-> task, testsToRun |-> tests, debug |-> debug, token |-> token,
                   listening |-> TRUE, onCancellationRequested |-> 0])]
      r     == Len(s1.runs)
  IN  IF ~debug
      THEN [s1 EXCEPT !.adapterCalls = Append(@, [method |-> "run", tests |-> ids])]
      ELSE IF hasDebug
      THEN [s1 EXCEPT !.adapterCalls = Append(@, [method |-> "debug", tests |-> ids])]
      ELSE [s1 EXCEPT !.runs[r].listening = FALSE]

\* metadata.get(test)!.converter throws for an item without metadata
RunOrDebugThrows(st, include) ==
  include # None /\ \E i \in 1..Len(include[1]) : include[1][i] \notin DOMAIN st.metadata

\* runOrDebug(debug, request, include, token): every item with metadata
\* belongs to this converter, so that `involved` has at most one entry
runOrDebug(st, debug, include, token, hasDebug) ==
  IF include = None
  THEN run(createTestRun(st), Len(st.testRuns) + 1, include, debug, token, hasDebug)
  ELSE IF RunOrDebugThrows(st, include) \/ include[1] = <<>>
  THEN st
  ELSE run(createTestRun(st), Len(st.testRuns) + 1, include, debug, token, hasDebug)

\* the TestRunRequest and the CancellationToken handed to a run handler by
\* VS Code: the request is known by its index, which stands for its token
NewRequest(st, debug, continuous) ==
  [st EXCEPT !.requests = Append(@,
     [debug |-> debug, continuous |-> continuous, isCancellationRequested |-> FALSE,
      listeners |-> <<>>, shortcut |-> 0, retire |-> FALSE])]

\* the ids of a retirement event as the continuous handler maps them:
\* evt.tests?.map(id => this.itemsById.get(id)).filter(d => !!d)
RetiredItems(st, evt) ==
  IF evt.tests = None THEN None
  ELSE LET known == SelectSeq(evt.tests[1], LAMBDA id : id \in DOMAIN st.itemsById)
       IN  Some([i \in 1..Len(known) |-> st.itemsById[known[i]]])

\* the mutant of retireListener that runs all the tests
retireListenerRunsAll(st, token, evt, hasDebug) ==
  runOrDebug(st, st.requests[token].debug, None, token, hasDebug)

\* the adapter.retire listener of a continuous request
retireListener(st, token, evt, hasDebug) ==
  runOrDebug(st, st.requests[token].debug, RetiredItems(st, evt), token, hasDebug)

\* makeRunHandler(debug)(request, token), the request being the latest one
makeRunHandler(st, debug, continuous, include, hasDebug, hasRetire) ==
  LET s1    == NewRequest(st, debug, continuous)
      token == Len(s1.requests)
  IN  IF continuous /\ hasRetire
      THEN [s1 EXCEPT !.requests = onCancellationRequested(
                                     [s1 EXCEPT !.requests[token].retire = TRUE],
                                     token, "dispose")]
      ELSE runOrDebug(s1, debug, include, token, hasDebug)

\* the adapter fires a retirement event: the listeners of the continuous
\* requests, in the order of their subscription, from request q on
RECURSIVE RetireListeners(_, _, _, _, _)
RetireListeners(st, live, q, evt, hasDebug) ==
  IF q > Len(st.requests) THEN st
  ELSE RetireListeners(IF q \in live THEN retireListener(st, q, evt, hasDebug) ELSE st,
                       live, q + 1, evt, hasDebug)

\* the mutant of retireHandler that invalidates the results of all the tests
retireHandlerAll(st, evt) ==
  [st EXCEPT !.invalidations =
     Append(@, [method |-> "invalidateTestResults", items |-> None])]

\* the adapter.retire handler of the constructor:
\* controller.invalidateTestResults(items) for the known ids of evt.tests,
\* controller.invalidateTestResults() without evt.tests
retireHandler(st, evt) ==
  [st EXCEPT !.invalidations =
     Append(@, [method |-> "invalidateTestResults", items |-> RetiredItems(st, evt)])]

\* the handler of the constructor was subscribed before any request came
FireRetire(st, evt, hasDebug) ==
  RetireListeners(retireHandler(st, evt), {q \in 1..Len(st.requests) : st.requests[q].retire}, 1, evt, hasDebug)

\* the listeners of a token run, in the order of their registration
RECURSIVE RunTokenListeners(_, _, _)
RunTokenListeners(st, token, listeners) ==
  IF listeners = <<>> THEN st
  ELSE RunTokenListeners(
         IF Head(listeners) = "cancel"
         THEN [st EXCEPT !.adapterCalls = Append(@, [method |-> "cancel", token |-> token])]
         ELSE [st EXCEPT !.requests[token].retire = FALSE],
         token, Tail(listeners))

\* VS Code cancels the token of a request
cancel(st, token) ==
  RunTokenListeners([st EXCEPT !.requests[token].isCancellationRequested = TRUE,
                               !.requests[token].listeners = <<>>],
                    token, st.requests[token].listeners)

\* a listener registered on a token that was cancelled already is called
\* from a timer
shortcutTimeout(st, token) ==
  [st EXCEPT !.requests[token].shortcut = @ - 1,
             !.adapterCalls = Append(@, [method |-> "cancel", token |-> token])]

(***************************************************************************)
(* State events of the current converter.                                  *)
(***************************************************************************)
\* the number of ancestors of a test item
RECURSIVE Depth(_, _)
Depth(st, test) ==
  IF st.items[test].parent = 0 THEN 0 ELSE 1 + Depth(st, st.items[test].parent)

\* appendState(task, vscodeTest, symbol, symbolColor, textColor): the line
\* is kept as its parts, and stateLine tells it from the raw text of a message
appendState(st, task, vscodeTest, symbol, symbolColor, textColor) ==
  Call(st, task,
       [op |-> "appendOutput", stateLine |-> TRUE,
        output |-> [indent |-> Depth(st, vscodeTest), symbol |-> symbol,
                    symbolColor |-> symbolColor, textColor |-> textColor,
                    label |-> st.items[vscodeTest].label],
        test |-> None])

\* the chain ensureChainAnnounced builds: from the first announced ancestor
\* (excluded) down to the leaf
RECURSIVE Chain(_, _, _)
Chain(st, announcedTests, item) ==
  IF item = 0 \/ item \in announcedTests THEN <<>>
  ELSE Append(Chain(st, announcedTests, st.items[item].parent), item)

RECURSIVE AnnounceAll(_, _, _, _)
AnnounceAll(st, runId, task, chain) ==
  IF chain = <<>> THEN st
  ELSE LET item == Head(chain)
           s1   == [st EXCEPT !.tasksByRunId[runId].announcedTests = @ \cup {item}]
           s2   == IF Len(s1.items[item].children) # 0
                   THEN appendState(s1, task, item, "down", "green", "plain")
                   ELSE s1
       IN  AnnounceAll(s2, runId, task, Tail(chain))

\* the mutant of ensureChainAnnounced that announces the whole chain anew
ensureChainAnnouncedAnew(st, runId, task, leafTest) ==
  AnnounceAll(st, runId, task, Chain(st, {}, leafTest))

\* ensureChainAnnounced(task, announcedTests, leafTest)
ensureChainAnnounced(st, runId, task, leafTest) ==
  AnnounceAll(st, runId, task,
              Chain(st, st.tasksByRunId[runId].announcedTests, leafTest))

\* text.replace(/\r?\n/g, '\r\n')
RECURSIVE NormalizeEol(_)
NormalizeEol(text) ==
  IF text = <<>> THEN <<>>
  ELSE IF Len(text) >= 2 /\ text[1] = "\r" /\ text[2] = "\n"
  THEN <<"\r", "\n">> \o NormalizeEol(SubSeq(text, 3, Len(text)))
  ELSE IF text[1] = "\n"
  THEN <<"\r", "\n">> \o NormalizeEol(Tail(text))
  ELSE <<text[1]>> \o NormalizeEol(Tail(text))

\* the mutant of DecorationMessage that anchors every message in the file
\* of the test
DecorationMessageAtTest(st, vscodeTest, decoration) ==
  [message  |-> decoration.message,
   location |-> IF st.items[vscodeTest].uri # None
                THEN Some([uri |-> st.items[vscodeTest].uri[1],
                           line |-> decoration.line, character |-> 0])
                ELSE None]

\* the vscode.TestMessage made of a decoration of an event on vscodeTest
DecorationMessage(st, vscodeTest, decoration) ==
  LET uri == IF Truthy(decoration.file) THEN Some(fileToUri(decoration.file[1]))
             ELSE st.items[vscodeTest].uri
  IN  [message  |-> decoration.message,
       location |-> IF uri # None
                    THEN Some([uri |-> uri[1], line |-> decoration.line, character |-> 0])
                    ELSE None]

\* this.runningSuiteByRunId.get(runId): 0 when there is none
RunningSuite(st, runId) ==
  IF runId \in DOMAIN st.runningSuiteByRunId THEN st.runningSuiteByRunId[runId] ELSE 0

\* the mutant of Graft that creates the item and attaches it nowhere
GraftUnattached(st, runningSuite, info) == createTest(st, info, None).st

\* runningSuite.children.add(this.createTest(info))
Graft(st, runningSuite, info) ==
  LET made == createTest(st, info, None)
  IN  Add(made.st, runningSuite, made.test)

\* the mutant of onTestSuiteEvent that reports a known suite to the session
\* of the run id
onTestSuiteEventReports(st, evt) ==
  IF RefId(evt.suite) \in DOMAIN st.itemsById
  THEN Call(st, st.tasksByRunId[RunKey(evt)].task,
            [op |-> IF evt.state = "running" THEN "started" ELSE "passed",
             test |-> st.itemsById[RefId(evt.suite)]])
  ELSE st

\* onTestSuiteEvent(evt)
onTestSuiteEvent(st, evt) ==
  LET runId        == RunKey(evt)
      runningSuite == RunningSuite(st, runId)
      suiteId      == RefId(evt.suite)
  IN  IF evt.state = "running"
      THEN LET s1 == IF /\ suiteId \notin DOMAIN st.itemsById
                        /\ evt.suite.kind = "object"
                        /\ runningSuite # 0
                     THEN Graft(st, runningSuite, evt.suite.info)
                     ELSE st
           IN  IF suiteId \in DOMAIN s1.itemsById
               THEN [s1 EXCEPT !.runningSuiteByRunId = (runId :> s1.itemsById[suiteId]) @@ @]
               ELSE s1
      ELSE IF runningSuite # 0 /\ st.items[runningSuite].id = suiteId
      THEN IF st.items[runningSuite].parent # 0
           THEN [st EXCEPT !.runningSuiteByRunId =
                             (runId :> st.items[runningSuite].parent) @@ @]
           ELSE [st EXCEPT !.runningSuiteByRunId = MapDelete(@, runId)]
      ELSE st

\* the mutant of FailedOrErrored that reports every such test as failed
FailedOrErroredAsFailed(st, runId, task, vscodeTest, evt) ==
  Call(appendState(ensureChainAnnounced(st, runId, task, vscodeTest),
                   task, vscodeTest, "cross", "red", "red"),
       task, [op |-> "failed", test |-> vscodeTest, messages |-> <<>>])

\* the case 'errored' / 'failed' of onTestEvent
FailedOrErrored(st, runId, task, vscodeTest, evt) ==
  LET s1 == appendState(ensureChainAnnounced(st, runId, task, vscodeTest),
                        task, vscodeTest, "cross", "red", "red")
      s2 == IF Truthy(evt.message)
            THEN Call(s1, task, [op |-> "appendOutput", stateLine |-> FALSE,
                                 output |-> NormalizeEol(evt.message[1]),
                                 test |-> Some(vscodeTest)])
            ELSE s1
      decorations == IF evt.decorations = None THEN <<>> ELSE evt.decorations[1]
      messages ==
        (IF Truthy(evt.message) /\ Len(decorations) = 0
         THEN <<[message |-> evt.message[1], location |-> None]>> ELSE <<>>)
        \o [i \in 1..Len(decorations) |-> DecorationMessage(s2, vscodeTest, decorations[i])]
  IN  Call(s2, task, [op |-> evt.state, test |-> vscodeTest, messages |-> messages])

\* onTestEvent({ task, announcedTests }, evt), the data being that of runId
onTestEvent(st, runId, evt) ==
  LET task         == st.tasksByRunId[runId].task
      runningSuite == RunningSuite(st, runId)
      testId       == RefId(evt.test)
      s1 == IF /\ evt.state = "running"
               /\ testId \notin DOMAIN st.itemsById
               /\ evt.test.kind = "object"
               /\ runningSuite # 0
            THEN Graft(st, runningSuite, evt.test.info)
            ELSE st
  IN  IF testId \notin DOMAIN s1.itemsById THEN s1
      ELSE
        LET vscodeTest == s1.itemsById[testId]
            s2 == CASE evt.state = "skipped" ->
                         Call(appendState(s1, task, vscodeTest, "circle", "yellow", "dim"),
                              task, [op |-> "skipped", test |-> vscodeTest])
                    [] evt.state = "running" ->
                         Call(s1, task, [op |-> "started", test |-> vscodeTest])
                    [] evt.state = "passed" ->
                         Call(appendState(ensureChainAnnounced(s1, runId, task, vscodeTest),
                                          task, vscodeTest, "check", "green", "plain"),
                              task, [op |-> "passed", test |-> vscodeTest])
                    [] evt.state \in {"errored", "failed"} ->
                         FailedOrErrored(s1, runId, task, vscodeTest, evt)
                    [] OTHER -> s1
        IN  IF /\ Truthy(evt.message)
               /\ (evt.state \notin {"errored", "failed"} \/ s2.items[vscodeTest].uri = None)
            THEN Call(s2, task, [op |-> "appendOutput", stateLine |-> FALSE,
                                 output |-> NormalizeEol(evt.message[1]),
                                 test |-> None])
            ELSE s2

\* the mutant of testStatesHandler that handles the suite events of any run
testStatesHandlerAnyRun(st, evt) ==
  LET runId == RunKey(evt)
  IN  IF evt.type = "suite" THEN onTestSuiteEvent(st, evt)
      ELSE IF runId \notin DOMAIN st.tasksByRunId THEN st
      ELSE CASE evt.type = "test" -> onTestEvent(st, runId, evt)
             [] evt.type = "finished" ->
                  Call([st EXCEPT !.tasksByRunId = MapDelete(@, runId)],
                       st.tasksByRunId[runId].task, [op |-> "end"])
             [] OTHER -> st

\* the adapter.testStates handler of the constructor
testStatesHandler(st, evt) ==
  LET runId == RunKey(evt)
  IN  IF runId \notin DOMAIN st.tasksByRunId THEN st
      ELSE CASE evt.type = "test" -> onTestEvent(st, runId, evt)
             [] evt.type = "suite" -> onTestSuiteEvent(st, evt)
             [] evt.type = "finished" ->
                  Call([st EXCEPT !.tasksByRunId = MapDelete(@, runId)],
                       st.tasksByRunId[runId].task, [op |-> "end"])
             [] OTHER -> st

\* the listeners of run() that are subscribed, called in the order of
\* their subscription, from the call r of run() on
RECURSIVE RunListeners(_, _, _, _)
RunListeners(st, live, r, evt) ==
  IF r > Len(st.runs) THEN st
  ELSE RunListeners(IF r \in live THEN runListener(st, r, evt) ELSE st, live, r + 1, evt)

\* the adapter fires evt on testStates: the constructor's handler first,
\* then the listeners subscribed when the event fires
FireTestStates(st, evt) ==
  RunListeners(testStatesHandler(st, evt),
               {r \in 1..Len(st.runs) : st.runs[r].listening}, 1, evt)

(***************************************************************************)
(* The generation-stamping converter (src/src/testConverter.ts).  Its      *)
(* items carry data.generation; its root is item 1 of the heap.            *)
(***************************************************************************)
root == 1
rootId == "test-adapter-root-0"

\* ctrl.createTestItem(id, label, parent, uri, data)
createTestItemGen(id, label, parent, uri, generation) ==
  [id |-> id, label |-> label, uri |-> uri, description |-> None, range |-> None,
   error |-> None, debuggable |-> FALSE, busy |-> FALSE, parent |-> parent,
   children |-> <<>>, disposed |-> FALSE, data |-> [generation |-> generation]]

\* parent.children.get(id): the child of that id, 0 when there is none
ChildById(st, parent, id) ==
  LET found == {c \in Range(st.items[parent].children) : st.items[c].id = id}
  IN  IF found = {} THEN 0 ELSE CHOOSE c \in found : TRUE

\* child.data.generation !== generation
Stale(st, child, generation) == st.items[child].data.generation # generation

RECURSIVE addItem(_, _, _, _, _)
RECURSIVE AddItems(_, _, _, _, _)

\* the mutant of RemoveStale that removes nothing
RemoveNothing(st, vscodeTest, generation) == st

\* the removal loop of syncItemChildren: every child of another generation
\* is disposed and its id deleted from itemsById
RemoveStale(st, vscodeTest, generation) ==
  LET stale == {c \in Range(st.items[vscodeTest].children) : Stale(st, c, generation)}
  IN  [st EXCEPT
         !.items = [o \in 1..Len(@) |->
                      IF o \in stale THEN [@[o] EXCEPT !.disposed = TRUE]
                      ELSE IF o = vscodeTest
                      THEN [@[o] EXCEPT !.children = SelectSeq(@, LAMBDA c : c \notin stale)]
                      ELSE @[o]],
         !.itemsById = [k \in DOMAIN @ \ {st.items[c].id : c \in stale} |-> @[k]]]

\* syncItemChildren(vscodeTest, generation, children)
syncItemChildrenGen(st, vscodeTest, generation, children, hasDebug) ==
  RemoveStale(AddItems(st, children, generation, vscodeTest, hasDebug),
              vscodeTest, generation)

\* for (const child of children) this.addItem(child, generation, vscodeTest)
AddItems(st, children, generation, vscodeTest, hasDebug) ==
  IF children = <<>> THEN st
  ELSE AddItems(addItem(st, Head(children), generation, vscodeTest, hasDebug),
                Tail(children), generation, vscodeTest, hasDebug)

\* addItem(item, generation, parent)
addItem(st, item, generation, parent, hasDebug) ==
  LET existing   == ChildById(st, parent, item.id)
      vscodeTest == IF existing # 0 THEN existing ELSE Len(st.items) + 1
      s1 == IF existing # 0
            THEN [st EXCEPT !.items[vscodeTest].data.generation = generation]
            ELSE LET obj == createTestItemGen(item.id, item.label, parent,
                              IF Truthy(item.file) THEN Some(fileToUri(item.file[1]))
                              ELSE st.items[parent].uri,
                              generation)
                     s0  == [st EXCEPT !.items = Append(@, obj)]
                 IN  [s0 EXCEPT !.items[parent].children = Append(@, vscodeTest),
                                !.itemsById = (item.id :> vscodeTest) @@ @]
      s2 == [s1 EXCEPT
               !.items[vscodeTest].description = item.description,
               !.items[vscodeTest].range =
                  IF item.line # None
                  THEN Some(<<item.line[1], 0, item.line[1] + 1, 0>>) ELSE @,
               !.items[vscodeTest].debuggable = hasDebug,
               !.items[vscodeTest].error = IF item.errored THEN item.message ELSE @]
  IN  syncItemChildrenGen(s2, vscodeTest, generation,
                          IF "children" \in DOMAIN item THEN item.children ELSE <<>>,
                          hasDebug)

\* promptDisableExplorerUi(), up to the prompt it shows
promptDisableExplorerUi(st) ==
  IF ~st.shouldPromptForUiDisable THEN st
  ELSE [st EXCEPT !.shouldPromptForUiDisable = FALSE, !.prompts = @ + 1]

\* adapter.tests handler, case 'finished'
testsFinishedGen(st, evt, hasDebug) ==
  LET s1 == [st EXCEPT !.items[root].busy = FALSE]
  IN  IF evt.suite # None
      THEN promptDisableExplorerUi(
             [syncItemChildrenGen(s1, root, s1.generationCounter, <<evt.suite[1]>>, hasDebug)
                EXCEPT !.generationCounter = @ + 1])
      ELSE s1

\* adapter.tests handler, case 'started'
testsStartedGen(st) == [st EXCEPT !.items[root].busy = TRUE]

\* the adapter.retire handler of the constructor, from the i-th id on:
\* this.itemsById.get(test)?.invalidate() for each test of
\* evt.tests ?? [this.root.id]
RECURSIVE retireHandlerGenFrom(_, _, _)
retireHandlerGenFrom(st, tests, i) ==
  IF i > Len(tests) THEN st
  ELSE retireHandlerGenFrom(
         IF tests[i] \in DOMAIN st.itemsById
         THEN [st EXCEPT !.invalidations =
                 Append(@, [method |-> "invalidate",
                            items |-> Some(<<st.itemsById[tests[i]]>>)])]
         ELSE st,
         tests, i + 1)

retireHandlerGen(st, evt) ==
  retireHandlerGenFrom(st, IF evt.tests = None THEN <<rootId>> ELSE evt.tests[1], 1)

\* refresh() of the converter, up to its await
refreshGen(st) ==
  [st EXCEPT !.items[root].busy = TRUE,
             !.adapterCalls = Append(@, [method |-> "load"]),
             !.refreshing = @ + 1]

\* refresh() of the converter, from its await on
refreshContinuation(st) ==
  [st EXCEPT !.items[root].busy = FALSE, !.refreshing = @ - 1]

(***************************************************************************)
(* Runs and state events of the generation-stamping converter.  A call of  *)
(* run() awaits the 'started' event; what follows the await runs later,    *)
(* as a step of its own.                                                   *)
(***************************************************************************)
\* the loop of run() over its queue of lists: the items it sets Queued
RECURSIVE Queued(_, _)
Queued(st, queue) ==
  IF queue = <<>> THEN <<>>
  ELSE LET list == queue[Len(queue)]
           rest == SubSeq(queue, 1, Len(queue) - 1)
       IN  list \o Queued(st, rest \o [i \in 1..Len(list) |-> st.items[list[i]].children])

\* run(run, testsToRun, debug, token), up to the await
runGen(st, task, testsToRun, debug, hasDebug) ==
  LET tests == IF root \in Range(testsToRun) THEN st.items[root].children ELSE testsToRun
      ids   == [i \in 1..Len(tests) |-> st.items[tests[i]].id]
      call  == [run |-> task, testsToRun |-> tests, debug |-> debug,
                listening |-> TRUE, settled |-> FALSE, started |-> None,
                returned |-> FALSE, onCancellationRequested |-> 0]
      s1    == [st EXCEPT !.runs = Append(@, call)]
      r     == Len(s1.runs)
  IN  IF ~debug
      THEN [s1 EXCEPT !.adapterCalls = Append(@, [method |-> "run", tests |-> ids])]
      ELSE IF hasDebug
      THEN [s1 EXCEPT !.adapterCalls = Append(@, [method |-> "debug", tests |-> ids])]
      ELSE [s1 EXCEPT !.runs[r].settled = TRUE]

\* the listener of run() on adapter.testStates, for the call r of run()
runListenerGen(st, r, evt) ==
  IF evt.type # "started" THEN st
  ELSE [st EXCEPT !.runs[r].started = IF st.runs[r].settled THEN @ ELSE Some(evt),
                  !.runs[r].settled = TRUE,
                  !.runs[r].listening = FALSE]

\* run(), from the await on, for the call r whose promise is settled
runContinuation(st, r) ==
  LET call   == st.runs[r]
      marks  == Queued(st, <<call.testsToRun>>)
      s1     == [st EXCEPT !.runs[r].returned = TRUE, !.runs[r].listening = FALSE]
  IN  IF call.started = None THEN s1
      ELSE [s1 EXCEPT
              !.testRuns[call.run] =
                 @ \o [i \in 1..Len(marks) |->
                         [op |-> "setState", test |-> marks[i], state |-> "Queued"]],
              !.tasksByRunId = (RunKey(call.started[1]) :> [task |-> call.run]) @@ @,
              !.runs[r].onCancellationRequested = @ + 1]

\* ctrl.runHandler(request, token) of the factory, with its one converter;
\* 0 stands for ctrl.root
runHandler(st, tests, debug, hasDebug) ==
  IF 0 \in Range(tests)
  THEN runGen(createTestRun(st), Len(st.testRuns) + 1, <<root>>, debug, hasDebug)
  ELSE IF tests = <<>> THEN st
  ELSE runGen(createTestRun(st), Len(st.testRuns) + 1, tests, debug, hasDebug)

\* convertedStates[evt.state]
convertedStates(state) ==
  CASE state = "running" -> "Running"
    [] state = "passed" -> "Passed"
    [] state = "failed" -> "Failed"
    [] state = "skipped" -> "Skipped"
    [] state = "errored" -> "Errored"
    [] state = "completed" -> "Unset"

\* task.appendMessage for each decoration of the event, in order
RECURSIVE AppendDecorations(_, _, _, _)
AppendDecorations(st, task, vscodeTest, decorations) ==
  IF decorations = <<>> THEN st
  ELSE AppendDecorations(
         Call(st, task, [op |-> "appendMessage", test |-> vscodeTest,
                         message |-> DecorationMessage(st, vscodeTest, Head(decorations))]),
         task, vscodeTest, Tail(decorations))

\* onTestEvent(task, evt)
onTestEventGen(st, task, evt) ==
  LET id == RefId(evt.test)
  IN  IF id \notin DOMAIN st.itemsById THEN st
      ELSE LET vscodeTest == st.itemsById[id]
               s1 == IF Truthy(evt.message)
                     THEN Call(st, task,
                               [op |-> "appendMessage", test |-> vscodeTest,
                                message |-> [message |-> evt.message[1],
                                             severity |-> "Information"]])
                     ELSE st
               s2 == AppendDecorations(s1, task, vscodeTest,
                       IF evt.decorations = None THEN <<>> ELSE evt.decorations[1])
           IN  Call(s2, task, [op |-> "setState", test |-> vscodeTest,
                               state |-> convertedStates(evt.state)])

\* the adapter.testStates handler of the constructor
testStatesHandlerGen(st, evt) ==
  LET runId == RunKey(evt)
  IN  IF runId \notin DOMAIN st.tasksByRunId THEN st
      ELSE LET task == st.tasksByRunId[runId].task
           IN  CASE evt.type = "test" -> onTestEventGen(st, task, evt)
                 [] evt.type = "suite" -> st
                 [] evt.type = "finished" -> Call(st, task, [op |-> "end"])
                 [] OTHER -> st

\* the listeners of run() that are subscribed, called in the order of
\* their subscription, from the call r of run() on
RECURSIVE RunListenersGen(_, _, _, _)
RunListenersGen(st, live, r, evt) ==
  IF r > Len(st.runs) THEN st
  ELSE RunListenersGen(IF r \in live THEN runListenerGen(st, r, evt) ELSE st,
                       live, r + 1, evt)

\* dispose() of the converter has run: it disposes the root and the
\* subscriptions the constructor pushed on this.disposables
Disposed(st) == st.items[root].disposed

\* dispose()
disposeGen(st) == [st EXCEPT !.items[root].disposed = TRUE]

\* the adapter fires evt on testStates: the constructor's handler first,
\* unless dispose() has unsubscribed it, then the listeners of run() that
\* are subscribed when the event fires
FireTestStatesGen(st, evt) ==
  RunListenersGen(IF Disposed(st) THEN st ELSE testStatesHandlerGen(st, evt),
                  {r \in 1..Len(st.runs) : st.runs[r].listening}, 1, evt)

(***************************************************************************)
(* The factory of generation-stamping converters                           *)
(* (src/src/testConverterFactory.ts).  A converter is known by the number  *)
(* of its construction; a test item is known here by the converter in its  *)
(* data and by its id.                                                     *)
(***************************************************************************)
\* ctrl.root, as a member of request.tests
ctrlRoot == [converter |-> 0, id |-> "ctrl-root"]

\* converter.root
ConverterRoot(converter) == [converter |-> converter, id |-> "root"]

\* this.converters.get(adapter): 0 when there is none
ConverterOf(st, a) ==
  LET found == {i \in 1..Len(st.converters) : st.converters[i].adapter = a}
  IN  IF found = {} THEN 0 ELSE st.converters[CHOOSE i \in found : TRUE].converter

\* registerTestAdapter(adapter): Map.set keeps the place of a key it has
registerTestAdapter(st, a) ==
  LET converter == Len(st.converterObjs) + 1
      s1 == [st EXCEPT !.ctrl = IF @ = None THEN Some([disposed |-> FALSE]) ELSE @,
                       !.converterObjs = Append(@, [adapter |-> a, disposed |-> FALSE])]
  IN  IF ConverterOf(st, a) # 0
      THEN [s1 EXCEPT !.converters =
              [i \in 1..Len(@) |-> IF @[i].adapter = a
                                    THEN [adapter |-> a, converter |-> converter]
                                    ELSE @[i]]]
      ELSE [s1 EXCEPT !.converters = Append(@, [adapter |-> a, converter |-> converter])]

\* unregisterTestAdapter(adapter)
unregisterTestAdapter(st, a) ==
  LET converter == ConverterOf(st, a)
      s1 == IF converter # 0 THEN [st EXCEPT !.converterObjs[converter].disposed = TRUE]
            ELSE st
  IN  [s1 EXCEPT !.converters = SelectSeq(@, LAMBDA e : e.adapter # a)]

\* dispose() of the factory: the controller if there is one, then every
\* converter of this.converters, which keeps its entries
disposeFactory(st) ==
  [st EXCEPT !.ctrl = IF @ = None THEN @ ELSE Some([disposed |-> TRUE]),
             !.converterObjs =
                [c \in 1..Len(@) |->
                   IF \E i \in 1..Len(st.converters) : st.converters[i].converter = c
                   THEN [@[c] EXCEPT !.disposed = TRUE]
                   ELSE @[c]]]

\* converter.run(ctrl.createTestRun(request), tests, request.debug, token)
ConverterRun(st, converter, tests, debug) ==
  [st EXCEPT !.converterRuns = Append(@, [converter |-> converter, run |-> Len(@) + 1,
                                          tests |-> tests, debug |-> debug])]

\* for (const converter of this.converters.values()) converter.run(...)
RECURSIVE RunEvery(_, _, _)
RunEvery(st, i, debug) ==
  IF i > Len(st.converters) THEN st
  ELSE RunEvery(ConverterRun(st, st.converters[i].converter,
                             <<ConverterRoot(st.converters[i].converter)>>, debug),
                i + 1, debug)

\* the mutant of Involved that makes an entry for every test
RECURSIVE InvolvedPerTest(_, _)
InvolvedPerTest(tests, involved) ==
  IF tests = <<>> THEN involved
  ELSE InvolvedPerTest(Tail(tests),
                       Append(involved, [converter |-> Head(tests).converter,
                                         tests |-> <<Head(tests)>>]))

\* the Map `involved` after the loop over request.tests: its entries in
\* insertion order
RECURSIVE Involved(_, _)
Involved(tests, involved) ==
  IF tests = <<>> THEN involved
  ELSE LET test  == Head(tests)
           found == {i \in 1..Len(involved) : involved[i].converter = test.converter}
       IN  Involved(Tail(tests),
                    IF found # {}
                    THEN [i \in 1..Len(involved) |->
                            IF i \in found
                            THEN [involved[i] EXCEPT !.tests = Append(@, test)]
                            ELSE involved[i]]
                    ELSE Append(involved, [converter |-> test.converter, tests |-> <<test>>]))

\* for (const [converter, tests] of involved) converter.run(...)
RECURSIVE RunInvolved(_, _, _)
RunInvolved(st, involved, debug) ==
  IF involved = <<>> THEN st
  ELSE RunInvolved(ConverterRun(st, Head(involved).converter, Head(involved).tests, debug),
                   Tail(involved), debug)

\* ctrl.runHandler(request, token) of the factory
factoryRunHandler(st, tests, debug) ==
  IF ctrlRoot \in Range(tests) THEN RunEvery(st, 1, debug)
  ELSE RunInvolved(st, Involved(tests, <<>>), debug)

\* `test-adapter-root-${rootIdCounter++}`: the id of the root of a converter
RootIds == <<"test-adapter-root-0", "test-adapter-root-1", "test-adapter-root-2",
             "test-adapter-root-3">>

\* the mutant of RefreshFrom that refreshes every converter
RECURSIVE RefreshEvery(_, _, _)
RefreshEvery(st, i, testId) ==
  IF i > Len(st.converters) THEN st
  ELSE RefreshEvery([st EXCEPT !.adapterCalls =
                       Append(@, [method |-> "load", adapter |-> st.converters[i].adapter])],
                    i + 1, testId)

\* the loop of refresh(testId) over this.converters.values(), from entry i
\* on; converter.refresh() is kept as its call of adapter.load()
RECURSIVE RefreshFrom(_, _, _)
RefreshFrom(st, i, testId) ==
  IF i > Len(st.converters) THEN st
  ELSE LET entry == st.converters[i]
       IN  RefreshFrom(
             IF testId = None \/ testId[1] = "" \/ RootIds[entry.converter] = testId[1]
             THEN [st EXCEPT !.adapterCalls =
                     Append(@, [method |-> "load", adapter |-> entry.adapter])]
             ELSE st,
             i + 1, testId)

\* refresh(testId) of the factory
refresh(st, testId) == RefreshFrom(st, 1, testId)

(***************************************************************************)
(* The extension (src/src/extension.ts).  A factory is known by the        *)
(* number of its construction; 0 stands for undefined.                     *)
(***************************************************************************)
\* the extension as activate(context) leaves it: no factory, and the two
\* commands, the configuration listener and the third command pushed on
\* context.subscriptions
Activated ==
  [factory       |-> 0,
   factories     |-> <<>>,
   subscriptions |-> <<[kind |-> "command", name |-> "testExplorerConverter.activate"],
                       [kind |-> "listener", name |-> "onDidChangeConfiguration"],
                       [kind |-> "command", name |-> "testExplorerConverter.refreshAdapter"],
                       [kind |-> "command", name |-> "testExplorerConverter.useNativeTesting"]>>,
   hub           |-> <<>>,
   calls         |-> <<>>]

\* the mutant of activateCommand that does not look for the hub
activateCommandUnguarded(st, hasTestExplorer) ==
  LET made == Len(st.extension.factories) + 1
  IN  [st EXCEPT
         !.extension.factory = made,
         !.extension.factories = Append(@, [disposed |-> FALSE]),
         !.extension.subscriptions =
            @ \o <<[kind |-> "factory", name |-> "TestConverterFactory"],
                   [kind |-> "unregister", name |-> "unregisterTestController"]>>,
         !.extension.hub = Append(@, [method |-> "registerTestController",
                                     controller |-> made])]

\* the command testExplorerConverter.activate; hasTestExplorer tells
\* whether vscode.extensions.getExtension finds the Test Explorer
activateCommand(st, hasTestExplorer) ==
  IF ~hasTestExplorer THEN st
  ELSE LET made == Len(st.extension.factories) + 1
       IN  [st EXCEPT
              !.extension.factory = made,
              !.extension.factories = Append(@, [disposed |-> FALSE]),
              !.extension.subscriptions =
                 @ \o <<[kind |-> "factory", name |-> "TestConverterFactory"],
                        [kind |-> "unregister", name |-> "unregisterTestController"]>>,
              !.extension.hub = Append(@, [method |-> "registerTestController",
                                          controller |-> made])]

\* the listener of onDidChangeConfiguration; value is what the
\* configuration holds for testExplorer.useNativeTesting
configurationChanged(st, affectsConfiguration, value) ==
  IF ~affectsConfiguration THEN st
  ELSE IF value # FALSE THEN st
  ELSE LET f  == st.extension.factory
           s1 == IF f # 0
                 THEN [st EXCEPT !.extension.factories[f].disposed = TRUE,
                                 !.extension.calls = Append(@, [method |-> "dispose",
                                                                factory |-> f])]
                 ELSE st
       IN  [s1 EXCEPT !.extension.factory = 0]

\* the command testExplorerConverter.refreshAdapter
refreshAdapterCommand(st) ==
  IF st.extension.factory # 0
  THEN [st EXCEPT !.extension.calls = Append(@, [method |-> "refresh",
                                                 factory |-> st.extension.factory])]
  ELSE st

\* the command testExplorerConverter.useNativeTesting
useNativeTestingCommand(st) ==
  [st EXCEPT !.extension.calls = Append(@, [method |-> "config.update", factory |-> 0])]

(***************************************************************************)
(* Initial state: the converter as its constructor leaves it, for an       *)
(* adapter with or without a debug method.                                 *)
(***************************************************************************)
Init ==
  /\ adapter \in {[debug |-> d, retire |-> FALSE] : d \in BOOLEAN}
  /\ adapterCalls = <<>>
  /\ items = <<>>
  /\ controllerItems = <<>>
  /\ itemsById = <<>>
  /\ metadata = <<>>
  /\ error = None
  /\ tasksByRunId = <<>>
  /\ runningSuiteByRunId = <<>>
  /\ runs = <<>>
  /\ testRuns = <<>>
  /\ requests = <<>>
  /\ doneDiscovery = FALSE
  /\ progress = <<>>
  /\ generationCounter = 0
  /\ shouldPromptForUiDisable = FALSE
  /\ prompts = 0
  /\ converters = <<>>
  /\ converterObjs = <<>>
  /\ converterRuns = <<>>
  /\ extension = Activated
  /\ loads = 0
  /\ stateEvents = 0
  /\ suitesRunning = {}
  /\ adapterRuns = <<>>
  /\ discovering = FALSE
  /\ refreshing = 0
  /\ invalidations = <<>>
  /\ ctrl = None
  /\ last = [type |-> "init"]

(***************************************************************************)
(* Actions of the current converter.                                       *)
(***************************************************************************)
\* the adapter fires a 'finished' discovery event
TestsFinished(evt) ==
  /\ Becomes(testsFinished(Here, evt))
  /\ loads' = loads + 1
  /\ last' = [type |-> "load", evt |-> evt]
  /\ UNCHANGED <<adapter, stateEvents, suitesRunning, adapterRuns, discovering>>

\* the include lists of the run requests of the model: none, an empty one,
\* one top-level item, all top-level items
Includes ==
  {None, Some(<<>>)}
  \cup {Some(<<controllerItems[i]>>) : i \in 1..Len(controllerItems)}
  \cup (IF Len(controllerItems) >= 2 THEN {Some(controllerItems)} ELSE {})

\* the user starts a run or debug request that is not continuous
RunRequest(debug, include) ==
  /\ Becomes(makeRunHandler(Here, debug, FALSE, include, adapter.debug, adapter.retire))
  /\ last' = [type |-> "run", debug |-> debug, include |-> include,
              threw |-> RunOrDebugThrows(Here, include)]
  /\ UNCHANGED <<adapter, loads, stateEvents, suitesRunning, adapterRuns, discovering>>

\* the suites reported running and not completed, after a state event that
\* left the ids known as knownIds: a suite event counts when its run id has
\* a session and the converter knows its suite, and the event that
\* finishes a session closes the suites of its run id
StillRunning(evt, knownIds) ==
  LET runId == RunKey(evt)
  IN  IF runId \notin DOMAIN tasksByRunId THEN suitesRunning
      ELSE CASE evt.type = "suite" /\ evt.state = "running" ->
                  IF RefId(evt.suite) \in knownIds
                  THEN suitesRunning \cup {<<runId, RefId(evt.suite)>>}
                  ELSE suitesRunning
             [] evt.type = "suite" /\ evt.state # "running" ->
                  suitesRunning \ {<<runId, RefId(evt.suite)>>}
             [] evt.type = "finished" -> {p \in suitesRunning : p[1] # runId}
             [] OTHER -> suitesRunning

\* the adapter fires a state event
TestStates(evt) ==
  /\ Becomes(FireTestStates(Here, evt))
  /\ stateEvents' = stateEvents + 1
  /\ suitesRunning' = StillRunning(evt, DOMAIN itemsById')
  /\ last' = [type |-> evt.type, evt |-> evt,
              registered |-> RunKey(evt) \in DOMAIN tasksByRunId]
  /\ UNCHANGED <<adapter, loads, adapterRuns, discovering>>

\* the discovery events of the specification of runs
RunLoadEvents ==
  {[type |-> "finished", suite |-> Some(SuiteNested), errorMessage |-> None],
   [type |-> "finished", suite |-> None, errorMessage |-> None],
   [type |-> "finished", suite |-> None, errorMessage |-> Some(LoadFailed)]}

\* the run requests of the model: a run of each include list, a debug of all
RunRequests ==
  {[debug |-> FALSE, include |-> i] : i \in Includes}
  \cup {[debug |-> TRUE, include |-> None]}

Next ==
  \/ /\ loads < MaxLoads
     /\ \E evt \in RunLoadEvents : TestsFinished(evt)
  \/ /\ Len(requests) < MaxRuns
     /\ \E req \in RunRequests : RunRequest(req.debug, req.include)
  \/ /\ stateEvents < MaxStateEvents
     /\ \/ \E evt \in StartedEvents : TestStates(evt)
        \/ \E evt \in TestEvents : TestStates(evt)
        \/ \E evt \in SuiteEvents : TestStates(evt)
        \/ \E evt \in FinishedEvents : TestStates(evt)

Spec == Init /\ [][Next]_vars

\* the adapter fires a 'started' discovery event
TestsStarted ==
  /\ Becomes(testsStarted(Here))
  /\ last' = [type |-> "loadStarted"]
  /\ UNCHANGED <<adapter, loads, stateEvents, suitesRunning, adapterRuns, discovering>>

\* the 30 second timer of an open progress indicator fires
ProgressTimeout(i) ==
  /\ progress[i] = "open"
  /\ Becomes(progressTimeout(Here, i))
  /\ last' = [type |-> "timeout"]
  /\ UNCHANGED <<adapter, loads, stateEvents, suitesRunning, adapterRuns, discovering>>

\* discovery alone, with every discovery event of the model
NextLoad ==
  \/ /\ loads < MaxPasses
     /\ \E evt \in LoadFinishedEvents : TestsFinished(evt)
  \/ TestsStarted
  \/ \E i \in 1..Len(progress) : ProgressTimeout(i)

SpecLoad == Init /\ [][NextLoad]_vars

\* the steps of ProgressTimeout, told by what they do to progress
TimeoutOwed ==
  \E i \in 1..Len(progress) :
    progress[i] = "open" /\ progress' = [progress EXCEPT ![i] = "closed"]

\* discovery alone, the timer of every open indicator firing in the end
SpecLoadFair == SpecLoad /\ WF_progress(TimeoutOwed)

(***************************************************************************)
(* The generation-stamping converter: initial state and actions.           *)
(***************************************************************************)
InitGenConverter ==
  /\ adapterCalls = <<>>
  /\ items = <<[createTestItemGen(rootId, "Test Adapter", 0, None, 0)
                  EXCEPT !.debuggable = TRUE]>>
  /\ itemsById = (rootId :> root)
  /\ tasksByRunId = <<>>
  /\ runs = <<>>
  /\ testRuns = <<>>
  /\ requests = <<>>
  /\ controllerItems = <<>>
  /\ metadata = <<>>
  /\ error = None
  /\ runningSuiteByRunId = <<>>
  /\ doneDiscovery = FALSE
  /\ progress = <<>>
  /\ generationCounter = 0
  /\ shouldPromptForUiDisable \in BOOLEAN
  /\ prompts = 0
  /\ converters = <<>>
  /\ converterObjs = <<>>
  /\ converterRuns = <<>>
  /\ extension = Activated
  /\ loads = 0
  /\ stateEvents = 0
  /\ suitesRunning = {}
  /\ adapterRuns = <<>>
  /\ discovering = FALSE
  /\ refreshing = 0
  /\ invalidations = <<>>
  /\ ctrl = None
  /\ last = [type |-> "init"]

\* the same, for an adapter that has no retire event
InitGen ==
  /\ adapter \in {[debug |-> d, retire |-> FALSE] : d \in BOOLEAN}
  /\ InitGenConverter

\* the adapter fires a 'finished' discovery event
TestsFinishedGen(evt) ==
  /\ Becomes(testsFinishedGen(Here, evt, adapter.debug))
  /\ loads' = loads + 1
  /\ discovering' = FALSE
  /\ last' = [type |-> "load", evt |-> evt]
  /\ UNCHANGED <<adapter, stateEvents, suitesRunning, adapterRuns>>

\* the adapter fires a 'started' discovery event
TestsStartedGen ==
  /\ Becomes(testsStartedGen(Here))
  /\ discovering' = TRUE
  /\ last' = [type |-> "loadStarted"]
  /\ UNCHANGED <<adapter, loads, stateEvents, suitesRunning, adapterRuns>>

\* another converter of the extension handles a discovery pass with a suite:
\* generationCounter is a variable of the module
OtherConverterPass ==
  /\ Becomes([Here EXCEPT !.generationCounter = @ + 1])
  /\ last' = [type |-> "otherPass"]
  /\ UNCHANGED <<adapter, loads, stateEvents, suitesRunning, adapterRuns, discovering>>

NextGen ==
  \/ /\ loads < MaxPasses
     /\ \E evt \in LoadFinishedEvents : TestsFinishedGen(evt)
  \/ TestsStartedGen
  \/ /\ generationCounter < loads + MaxOtherPasses
     /\ OtherConverterPass

SpecGen == InitGen /\ [][NextGen]_vars

(***************************************************************************)
(* Actions of runs of the generation-stamping converter.                   *)
(***************************************************************************)
\* the discovery events of the specification of its runs
GenRunLoadEvents ==
  {[type |-> "finished", suite |-> Some(SuiteAB), errorMessage |-> None],
   [type |-> "finished", suite |-> None, errorMessage |-> None]}

\* the tests of the run requests: ctrl.root, the root of the converter, the
\* suite below it
GenRunTests ==
  {<<0>>, <<root>>} \cup {<<items[root].children[i]>> : i \in 1..Len(items[root].children)}

\* the state events of the specification of its runs
GenStateEvents ==
  StartedEvents \cup FinishedEvents
  \cup {TestEvent(ById("a"), "passed", None, None, Some("T1")),
        TestEvent(ById("a"), "failed", Some(Failure), Some(<<Decoration2>>), Some("T1")),
        TestEvent(ById("b"), "running", None, None, None),
        TestEvent(ById("zz"), "passed", None, None, Some("T1")),
        SuiteEvent(ById("root"), "running", Some("T1"))}

\* the user starts a run or debug request
RunRequestGen(debug, tests) ==
  /\ Becomes(runHandler(Here, tests, debug, adapter.debug))
  /\ last' = [type |-> "run", debug |-> debug, tests |-> tests]
  /\ UNCHANGED <<adapter, loads, stateEvents, suitesRunning, adapterRuns, discovering>>

\* run() goes on after its await, for the call r
RunContinues(r) ==
  /\ runs[r].settled /\ ~runs[r].returned
  /\ Becomes(runContinuation(Here, r))
  /\ last' = [type |-> "continue", r |-> r]
  /\ UNCHANGED <<adapter, loads, stateEvents, suitesRunning, adapterRuns, discovering>>

\* the adapter fires a state event
TestStatesGen(evt) ==
  /\ Becomes(FireTestStatesGen(Here, evt))
  /\ stateEvents' = stateEvents + 1
  /\ last' = [type |-> evt.type, evt |-> evt,
              registered |-> RunKey(evt) \in DOMAIN tasksByRunId]
  /\ UNCHANGED <<adapter, loads, suitesRunning, adapterRuns, discovering>>

NextGenRun ==
  \/ /\ loads < MaxGenLoads
     /\ \E evt \in GenRunLoadEvents : TestsFinishedGen(evt)
  \/ /\ Len(runs) < MaxGenRuns
     /\ \E tests \in GenRunTests : \E debug \in BOOLEAN : RunRequestGen(debug, tests)
  \/ \E r \in 1..Len(runs) : RunContinues(r)
  \/ /\ stateEvents < MaxGenStateEvents
     /\ \E evt \in GenStateEvents : TestStatesGen(evt)

SpecGenRun == InitGen /\ [][NextGenRun]_vars

(***************************************************************************)
(* The generation-stamping converter is torn down: its adapter is          *)
(* unregistered while runs are pending or registered.  Once its root is    *)
(* disposed no request names its items, and a discovery event finds no     *)
(* listener.                                                               *)
(***************************************************************************)
\* unregisterTestAdapter(adapter) of the factory, for this converter
UnregisterGen ==
  /\ ~Disposed(Here)
  /\ Becomes(disposeGen(Here))
  /\ last' = [type |-> "unregister"]
  /\ UNCHANGED <<adapter, loads, stateEvents, suitesRunning, adapterRuns, discovering>>

NextTeardown ==
  \/ /\ loads < MaxGenLoads
     /\ ~Disposed(Here)
     /\ \E evt \in GenRunLoadEvents : TestsFinishedGen(evt)
  \/ /\ Len(runs) < MaxGenRuns
     /\ ~Disposed(Here)
     /\ \E tests \in GenRunTests : \E debug \in BOOLEAN : RunRequestGen(debug, tests)
  \/ \E r \in 1..Len(runs) : RunContinues(r)
  \/ UnregisterGen
  \/ /\ stateEvents < MaxGenStateEvents
     /\ \E evt \in GenStateEvents : TestStatesGen(evt)

SpecTeardown == InitGen /\ [][NextTeardown]_vars


(***************************************************************************)
(* Run requests of the current converter: continuous requests, retirement  *)
(* events and cancellation.                                                *)
(***************************************************************************)
\* TestConverter after its constructor, for any adapter
InitAnyAdapter ==
  /\ adapter \in {[debug |-> d, retire |-> r] : d, r \in BOOLEAN}
  /\ adapterCalls = <<>>
  /\ items = <<>>
  /\ controllerItems = <<>>
  /\ itemsById = <<>>
  /\ metadata = <<>>
  /\ error = None
  /\ tasksByRunId = <<>>
  /\ runningSuiteByRunId = <<>>
  /\ runs = <<>>
  /\ testRuns = <<>>
  /\ requests = <<>>
  /\ doneDiscovery = FALSE
  /\ progress = <<>>
  /\ generationCounter = 0
  /\ shouldPromptForUiDisable = FALSE
  /\ prompts = 0
  /\ converters = <<>>
  /\ converterObjs = <<>>
  /\ converterRuns = <<>>
  /\ extension = Activated
  /\ loads = 0
  /\ stateEvents = 0
  /\ suitesRunning = {}
  /\ adapterRuns = <<>>
  /\ discovering = FALSE
  /\ refreshing = 0
  /\ invalidations = <<>>
  /\ ctrl = None
  /\ last = [type |-> "init"]

\* evt.tests of the retirement events: none, known ids, an unknown id
RetireEvents ==
  {[tests |-> t] : t \in {None, Some(<<"a">>), Some(<<"b", "zz">>), Some(<<"zz">>)}}

\* the include lists of the run requests: none, an empty one, one item
RequestIncludes ==
  {None, Some(<<>>)} \cup {Some(<<controllerItems[i]>>) : i \in 1..Len(controllerItems)}

\* the user starts a run or debug request
Request(debug, continuous, include) ==
  /\ Becomes(makeRunHandler(Here, debug, continuous, include, adapter.debug, adapter.retire))
  /\ last' = [type |-> "request", debug |-> debug, continuous |-> continuous,
              include |-> include]
  /\ UNCHANGED <<adapter, loads, stateEvents, suitesRunning, adapterRuns, discovering>>

\* the adapter fires a retirement event
Retire(evt) ==
  /\ adapter.retire
  /\ Becomes(FireRetire([Here EXCEPT !.invalidations = <<>>], evt, adapter.debug))
  /\ last' = [type |-> "retire", evt |-> evt]
  /\ UNCHANGED <<adapter, loads, stateEvents, suitesRunning, adapterRuns, discovering>>

\* VS Code cancels the token of a request
Cancel(token) ==
  /\ ~requests[token].isCancellationRequested
  /\ Becomes(cancel(Here, token))
  /\ last' = [type |-> "cancel", token |-> token]
  /\ UNCHANGED <<adapter, loads, stateEvents, suitesRunning, adapterRuns, discovering>>

\* the timer of a listener registered on a cancelled token fires
ShortcutTimeout(token) ==
  /\ requests[token].shortcut > 0
  /\ Becomes(shortcutTimeout(Here, token))
  /\ last' = [type |-> "shortcut", token |-> token]
  /\ UNCHANGED <<adapter, loads, stateEvents, suitesRunning, adapterRuns, discovering>>

NextRequests ==
  \/ /\ loads < MaxLoads
     /\ \E evt \in RunLoadEvents : TestsFinished(evt)
  \/ /\ Len(requests) < MaxRequests
     /\ Len(runs) < MaxRunCalls
     /\ \E debug, continuous \in BOOLEAN : \E include \in RequestIncludes :
          Request(debug, continuous, include)
  \/ /\ Len(runs) < MaxRunCalls
     /\ \E evt \in RetireEvents : Retire(evt)
  \/ \E token \in 1..Len(requests) : Cancel(token)
  \/ \E token \in 1..Len(requests) : ShortcutTimeout(token)
  \/ /\ stateEvents < MaxRequestStateEvents
     /\ \/ \E evt \in StartedEvents : TestStates(evt)
        \/ \E evt \in FinishedEvents : TestStates(evt)

SpecRequests == InitAnyAdapter /\ [][NextRequests]_vars

(***************************************************************************)
(* The specification of one run session of the current converter: suite   *)
(* s with suite t and test c, t with the tests a and b, is discovered,     *)
(* everything is run, and the adapter reports the states of suites and     *)
(* tests under the run id T1.                                              *)
(***************************************************************************)
SessionLoadEvents ==
  {[type |-> "finished", suite |-> Some(SuiteDeep), errorMessage |-> None]}

\* the test events of a session: the states of the test a (which has a
\* file) and of the tests b and c (which have none), failures with and
\* without decorations, an unknown id, and a test only known at run time,
\* by descriptor and by id
SessionTestEvents ==
  {TestEvent(ById("a"), s, None, None, Some("T1")) : s \in {"running", "passed", "skipped"}}
  \cup {TestEvent(ById("a"), "failed", Some(Failure), d, Some("T1")) :
          d \in {None, Some(<<Decoration1, Decoration2>>)}}
  \cup {TestEvent(ById("b"), "errored", Some(Failure), Some(<<Decoration2>>), Some("T1")),
        TestEvent(ById("b"), "passed", None, None, Some("T1")),
        TestEvent(ById("c"), "skipped", None, None, Some("T1")),
        TestEvent(ById("zz"), "passed", None, None, Some("T1")),
        TestEvent(ByInfo(InfoN), "running", None, None, Some("T1")),
        TestEvent(ByInfo(InfoN), "passed", None, None, Some("T1")),
        TestEvent(ById("n"), "passed", None, None, Some("T1"))}

\* the suite events of a session: the suites s and t, a suite only known
\* at run time, and the id of a test
SessionSuiteEvents ==
  {SuiteEvent(ById(id), s, Some("T1")) :
     id \in {"s", "t"}, s \in {"running", "completed"}}
  \cup {SuiteEvent(ByInfo(InfoDyn), "running", Some("T1")),
        SuiteEvent(ById("dyn"), "completed", Some("T1")),
        SuiteEvent(ById("a"), "running", Some("T1"))}

\* the adapter answers a call of run() with the event that starts run T1
RunStarted ==
  /\ \E r \in 1..Len(runs) : runs[r].listening
  /\ Becomes(FireTestStates(Here, [type |-> "started", testRunId |-> Some("T1")]))
  /\ last' = [type |-> "started", evt |-> [type |-> "started", testRunId |-> Some("T1")],
              registered |-> "T1" \in DOMAIN tasksByRunId]
  /\ UNCHANGED <<adapter, loads, stateEvents, suitesRunning, adapterRuns, discovering>>

NextSession ==
  \/ /\ loads < MaxLoads
     /\ \E evt \in SessionLoadEvents : TestsFinished(evt)
  \/ /\ Len(runs) < MaxRuns
     /\ RunRequest(FALSE, None)
  \/ RunStarted
  \/ /\ stateEvents < MaxSessionEvents
     /\ \/ \E evt \in SessionTestEvents : TestStates(evt)
        \/ \E evt \in SessionSuiteEvents : TestStates(evt)
        \/ TestStates([type |-> "finished", testRunId |-> Some("T1")])

SpecSession == Init /\ [][NextSession]_vars

(***************************************************************************)
(* Actions of the factory of generation-stamping converters.               *)
(***************************************************************************)
Adapters == {"A", "B"}

\* the converters whose items are in the tree
LiveConverters == {c \in 1..Len(converterObjs) : ~converterObjs[c].disposed}

\* the tests of the converters that are not disposed: two below each root
FactoryTests == {[converter |-> c, id |-> id] : c \in LiveConverters, id \in {"t1", "t2"}}

\* request.tests of the requests of the model: nothing, one item (a test,
\* the root of a converter or ctrl.root), two tests, ctrl.root beside a
\* test, and the tests of two converters in turn
FactoryRequests ==
  {<<>>, <<ctrlRoot>>}
  \cup {<<x>> : x \in FactoryTests \cup {ConverterRoot(c) : c \in LiveConverters}}
  \cup {<<x, y>> : x, y \in FactoryTests}
  \cup {<<x, ctrlRoot>> : x \in FactoryTests}
  \cup {<<[converter |-> c, id |-> "t1"], [converter |-> e, id |-> "t1"],
          [converter |-> c, id |-> "t2"]>> : c, e \in LiveConverters}

\* the Test Explorer registers an adapter
RegisterTestAdapter(a) ==
  /\ Becomes(registerTestAdapter(Here, a))
  /\ last' = [type |-> "register", adapter |-> a]
  /\ UNCHANGED <<adapter, loads, stateEvents, suitesRunning, adapterRuns, discovering>>

\* the Test Explorer unregisters an adapter
UnregisterTestAdapter(a) ==
  /\ Becomes(unregisterTestAdapter(Here, a))
  /\ last' = [type |-> "unregister", adapter |-> a]
  /\ UNCHANGED <<adapter, loads, stateEvents, suitesRunning, adapterRuns, discovering>>

\* VS Code calls the run handler of the controller
RunHandlerCalled(tests, debug) ==
  /\ Len(converterObjs) > 0
  /\ Becomes(factoryRunHandler(Here, tests, debug))
  /\ stateEvents' = stateEvents + 1
  /\ last' = [type |-> "runHandler", tests |-> tests, debug |-> debug]
  /\ UNCHANGED <<adapter, loads, suitesRunning, adapterRuns, discovering>>

NextFactory ==
  \/ /\ Len(converterObjs) < MaxConverters
     /\ \E a \in Adapters : RegisterTestAdapter(a)
  \/ \E a \in Adapters : UnregisterTestAdapter(a)
  \/ /\ stateEvents < MaxHandlerCalls
     /\ \E tests \in FactoryRequests : \E debug \in BOOLEAN : RunHandlerCalled(tests, debug)

\* the factory as its constructor leaves it: no controller, no converter
InitFactory == InitAnyAdapter /\ ~adapter.debug /\ ~adapter.retire

SpecFactory == InitFactory /\ [][NextFactory]_vars

(***************************************************************************)
(* Actions of the extension.                                               *)
(***************************************************************************)
\* the user runs the command that activates the converter
ActivateCommand(hasTestExplorer) ==
  /\ Becomes(activateCommand(Here, hasTestExplorer))
  /\ stateEvents' = stateEvents + 1
  /\ last' = [type |-> "activate", hasTestExplorer |-> hasTestExplorer]
  /\ UNCHANGED <<adapter, loads, suitesRunning, adapterRuns, discovering>>

\* the configuration changes
ConfigurationChanged(affectsConfiguration, value) ==
  /\ Becomes(configurationChanged(Here, affectsConfiguration, value))
  /\ stateEvents' = stateEvents + 1
  /\ last' = [type |-> "configuration", affectsConfiguration |-> affectsConfiguration,
              value |-> value]
  /\ UNCHANGED <<adapter, loads, suitesRunning, adapterRuns, discovering>>

\* the user runs the command that refreshes
RefreshAdapterCommand ==
  /\ Becomes(refreshAdapterCommand(Here))
  /\ stateEvents' = stateEvents + 1
  /\ last' = [type |-> "refreshAdapter"]
  /\ UNCHANGED <<adapter, loads, suitesRunning, adapterRuns, discovering>>

\* the user runs the command that turns native testing on
UseNativeTestingCommand ==
  /\ Becomes(useNativeTestingCommand(Here))
  /\ stateEvents' = stateEvents + 1
  /\ last' = [type |-> "useNativeTesting"]
  /\ UNCHANGED <<adapter, loads, suitesRunning, adapterRuns, discovering>>

NextExtension ==
  /\ stateEvents < MaxCommands
  /\ \/ \E hasTestExplorer \in BOOLEAN : ActivateCommand(hasTestExplorer)
     \/ \E affectsConfiguration, value \in BOOLEAN :
          ConfigurationChanged(affectsConfiguration, value)
     \/ RefreshAdapterCommand
     \/ UseNativeTestingCommand

SpecExtension == InitFactory /\ [][NextExtension]_vars

(***************************************************************************)
(* The refresh command on the factory.                                     *)
(***************************************************************************)
\* the argument of refresh: none, an empty id, the id of a root, another id
RefreshIds ==
  {None, Some(""), Some("zz")} \cup {Some(RootIds[n]) : n \in 1..Len(converterObjs)}

\* the user refreshes
Refresh(testId) ==
  /\ Becomes(refresh(Here, testId))
  /\ stateEvents' = stateEvents + 1
  /\ last' = [type |-> "refresh", testId |-> testId]
  /\ UNCHANGED <<adapter, loads, suitesRunning, adapterRuns, discovering>>

NextRefresh ==
  \/ /\ Len(converterObjs) < MaxConverters
     /\ \E a \in Adapters : RegisterTestAdapter(a)
  \/ \E a \in Adapters : UnregisterTestAdapter(a)
  \/ /\ stateEvents < MaxRefreshes
     /\ \E testId \in RefreshIds : Refresh(testId)

SpecRefresh == InitFactory /\ [][NextRefresh]_vars

(***************************************************************************)
(* What a discovery pass of the current converter must leave: the tree of  *)
(* the descriptors, stated without the operators of the model above.       *)
(***************************************************************************)
\* the index of the first descriptor of the list with that id
FirstIndex(descs, id) ==
  CHOOSE i \in 1..Len(descs) :
    descs[i].id = id /\ \A j \in 1..(i - 1) : descs[j].id # id

\* the item is built from the descriptor (its children apart)
BuiltFrom(its, meta, o, d) ==
  /\ its[o].id = d.id
  /\ its[o].label = d.label
  /\ its[o].description = d.description
  /\ its[o].uri = IF Truthy(d.file) THEN Some(fileToUri(d.file[1])) ELSE None
  /\ its[o].range = IF d.line = None THEN None
                    ELSE Some(<<d.line[1], 0, d.line[1] + 1, 0>>)
  /\ its[o].error = IF d.errored THEN d.message ELSE None
  /\ o \in DOMAIN meta /\ meta[o].isSuite = (d.type = "suite")

\* the collection `list` of owner holds one item per distinct id of descs, in
\* the order of the first descriptors of the ids, each built from the first
\* descriptor of its id, and so on below
RECURSIVE TreeIs(_, _, _, _, _)
TreeIs(its, meta, owner, list, descs) ==
  /\ {its[o].id : o \in Range(list)} = {d.id : d \in Range(descs)}
  /\ \A i, j \in 1..Len(list) :
       i < j => /\ its[list[i]].id # its[list[j]].id
                /\ FirstIndex(descs, its[list[i]].id) < FirstIndex(descs, its[list[j]].id)
  /\ \A o \in Range(list) :
       LET d == descs[FirstIndex(descs, its[o].id)]
       IN  /\ BuiltFrom(its, meta, o, d)
           /\ its[o].parent = owner
           /\ TreeIs(its, meta, o, its[o].children,
                     IF "children" \in DOMAIN d THEN d.children ELSE <<>>)

\* the number of items of the tree of descs
RECURSIVE TreeSize(_)
TreeSize(descs) ==
  LET firsts == {i \in 1..Len(descs) : \A j \in 1..(i - 1) : descs[j].id # descs[i].id}
      size[S \in SUBSET firsts] ==
        IF S = {} THEN 0
        ELSE LET i == CHOOSE i \in S : TRUE
             IN  1 + (IF "children" \in DOMAIN descs[i] THEN TreeSize(descs[i].children)
                      ELSE 0)
                   + size[S \ {i}]
  IN  size[firsts]

\* the ids of the tree of descs
RECURSIVE TreeIds(_)
TreeIds(descs) ==
  UNION {{descs[i].id} \cup (IF "children" \in DOMAIN descs[i]
                             THEN TreeIds(descs[i].children) ELSE {}) :
           i \in {i \in 1..Len(descs) : \A j \in 1..(i - 1) : descs[j].id # descs[i].id}}

\* the items of the tree below a collection
RECURSIVE ItemsBelow(_, _)
ItemsBelow(its, list) ==
  Range(list) \cup UNION {ItemsBelow(its, its[o].children) : o \in Range(list)}

\* the step handles a 'finished' discovery event
IsLoad(l) == l.type = "load"
LoadHasSuite(l) == IsLoad(l) /\ l.evt.suite # None
LoadHasError(l) == IsLoad(l) /\ l.evt.suite = None /\ Truthy(l.evt.errorMessage)
LoadHasNothing(l) == IsLoad(l) /\ l.evt.suite = None /\ ~Truthy(l.evt.errorMessage)

\* the tree shows the synthetic discovery-error node alone
ErrorNodeAlone(its, top) ==
  /\ Len(top) = 1
  /\ its[top[1]].id = "error"
  /\ its[top[1]].label = "Test discovery failed"
  /\ its[top[1]].children = <<>>

(***************************************************************************)
(* C7: a discovery pass that reports a suite leaves, in every collection,  *)
(* exactly one item per distinct id of the descriptor list, built from the *)
(* first descriptor of that id; a later descriptor of a seen id creates no *)
(* item, no subtree and no entry of itemsById.                             *)
(***************************************************************************)
C7_FirstOfEachId ==
  [][LoadHasSuite(last') =>
       LET descs == last'.evt.suite[1].children
       IN  /\ TreeIs(items', metadata', 0, controllerItems', descs)
           /\ Len(items') - Len(items) = TreeSize(descs)
           /\ DOMAIN itemsById' = TreeIds(descs)
           /\ \A id \in DOMAIN itemsById' :
                /\ itemsById'[id] \in ItemsBelow(items', controllerItems')
                /\ items'[itemsById'[id]].id = id]_vars

\* a pass with duplicate ids has been handled: suite s is there once, with
\* test a of its first descriptor, and test b of its second is unknown
C7_Witness ==
  /\ LoadHasSuite(last) /\ last.evt.suite[1] = SuiteDup
  /\ Len(controllerItems) = 2
  /\ items[controllerItems[1]].label = "Sub1"
  /\ "b" \notin DOMAIN itemsById

(***************************************************************************)
(* C8: a 'finished' discovery event with neither a suite nor an error      *)
(* message leaves the tree as it was: the same items, the same structure,  *)
(* the same properties.                                                    *)
(***************************************************************************)
C8_NothingReportedKeepsTree ==
  [][LoadHasNothing(last') =>
       /\ items' = items
       /\ controllerItems' = controllerItems
       /\ metadata' = metadata]_vars

\* such an event has been handled with a tree in place
C8_Witness ==
  /\ LoadHasNothing(last)
  /\ Len(controllerItems) >= 2

(***************************************************************************)
(* C9: a 'finished' discovery event with an error message and no suite     *)
(* leaves exactly one synthetic error node as the whole tree, and records  *)
(* the error text, which the node's link names by the controller id of     *)
(* the converter.                                                          *)
(***************************************************************************)
C9_ErrorReplacesTree ==
  LoadHasError(last) =>
    /\ ErrorNodeAlone(items, controllerItems)
    /\ items[controllerItems[1]].parent = 0
    /\ items[controllerItems[1]].error = Some(ShowErrorLink(controllerId))
    /\ error # None
    /\ SubSeq(error[1], 1, Len(last.evt.errorMessage[1])) = last.evt.errorMessage[1]
    /\ showError(Here, items[controllerItems[1]].error[1].args[1]) = error

\* the error arrived when the tree held the items of an earlier pass
C9_Witness ==
  /\ LoadHasError(last)
  /\ ErrorNodeAlone(items, controllerItems)
  /\ \E o \in 1..Len(items) : items[o].id = "a"

(***************************************************************************)
(* C10: when the tree is the synthetic error node of a failed pass, a pass *)
(* that reports a suite leaves exactly the items of the suite's            *)
(* descriptors, and the error node is no longer in the tree.               *)
(***************************************************************************)
C10_SuiteAfterError ==
  [][(ErrorNodeAlone(items, controllerItems)
        /\ controllerItems[1] \notin DOMAIN metadata
        /\ LoadHasSuite(last')) =>
       /\ TreeIs(items', metadata', 0, controllerItems', last'.evt.suite[1].children)
       /\ controllerItems[1] \notin ItemsBelow(items', controllerItems')]_vars

\* a suite has been reported after a failed pass
C10_Witness ==
  /\ LoadHasSuite(last)
  /\ Len(controllerItems) >= 2
  /\ \E o \in 1..Len(items) :
       /\ items[o].id = "error" /\ o \notin DOMAIN metadata
       /\ o \notin ItemsBelow(items, controllerItems)
       /\ o < controllerItems[1]

(***************************************************************************)
(* Runs and state events of the current converter.                         *)
(***************************************************************************)
\* an item and the items below it
RECURSIVE Descendants(_, _)
Descendants(its, n) ==
  {n} \cup UNION {Descendants(its, c) : c \in Range(its[n].children)}

\* the requested items of the call r of run() and the items below them
Requested(r) == UNION {Descendants(items, n) : n \in Range(runs[r].testsToRun)}

\* the calls of run() that await their 'started' event
Pending == {r \in 1..Len(runs) : runs[r].listening}

\* the calls a step makes on a session
NewCalls(task) == SubSeq(testRuns'[task], Len(testRuns[task]) + 1, Len(testRuns'[task]))

\* the sessions other than `tasks` get no call in a step
NoCallBut(tasks) ==
  /\ Len(testRuns') = Len(testRuns)
  /\ \A t \in 1..Len(testRuns) : t \notin tasks => testRuns'[t] = testRuns[t]

\* the step handles a state event of that type
IsStateEvent(l, types) == l.type \in types /\ "evt" \in DOMAIN l

C3_UnknownTokenIsNoOp ==
  [][(IsStateEvent(last', {"test", "suite", "finished"})
        /\ RunKey(last'.evt) \notin DOMAIN tasksByRunId) =>
       UNCHANGED <<testRuns, items, controllerItems, metadata, itemsById,
                   tasksByRunId, runningSuiteByRunId>>]_vars

\* such an event arrived for a suite the converter knows, while a session
\* was registered under another token
C3_Witness ==
  /\ IsStateEvent(last, {"suite"})
  /\ ~last.registered
  /\ RefId(last.evt.suite) \in DOMAIN itemsById
  /\ tasksByRunId # <<>>

(***************************************************************************)
(* C4: a test event on an item the converter knows, under a registered     *)
(* session, with one of the states running, passed, failed, errored and    *)
(* skipped, makes exactly one state call, on that session, and it is the   *)
(* call of the event's state on that item (a test event of the state       *)
(* completed makes none); a 'finished' event of a registered token ends    *)
(* its session.                                                            *)
(***************************************************************************)
RecognizedStates == {"running", "passed", "failed", "errored", "skipped"}
StateCallOf(state) == IF state = "running" THEN "started" ELSE state
StateCalls == {"started", "passed", "failed", "errored", "skipped", "enqueued"}

C4_OneMatchingStateCall ==
  [][/\ (/\ IsStateEvent(last', {"test"})
         /\ RunKey(last'.evt) \in DOMAIN tasksByRunId
         /\ RefId(last'.evt.test) \in DOMAIN itemsById) =>
          LET task  == tasksByRunId[RunKey(last'.evt)].task
              calls == NewCalls(task)
              state == {i \in 1..Len(calls) : calls[i].op \in StateCalls}
          IN  /\ last'.evt.state \in RecognizedStates =>
                   /\ Cardinality(state) = 1
                   /\ \A i \in state :
                        /\ calls[i].op = StateCallOf(last'.evt.state)
                        /\ calls[i].test = itemsById[RefId(last'.evt.test)]
              /\ last'.evt.state \notin RecognizedStates => state = {}
              /\ \A i \in 1..Len(calls) : calls[i].op # "end"
              /\ NoCallBut({task})
     /\ (/\ IsStateEvent(last', {"finished"})
         /\ RunKey(last'.evt) \in DOMAIN tasksByRunId) =>
          LET task == tasksByRunId[RunKey(last'.evt)].task
          IN  /\ NewCalls(task) = <<[op |-> "end"]>>
              /\ RunKey(last'.evt) \notin DOMAIN tasksByRunId'
              /\ NoCallBut({task})]_vars

\* an errored test has been reported to its session
C4_Witness ==
  /\ IsStateEvent(last, {"test"})
  /\ last.registered
  /\ last.evt.state = "errored"
  /\ LET calls == testRuns[tasksByRunId[RunKey(last.evt)].task]
     IN  \E i \in 1..Len(calls) :
           calls[i].op = "errored" /\ calls[i].test = itemsById[RefId(last.evt.test)]

(***************************************************************************)
(* Discovery passes of the generation-stamping converter.                  *)
(***************************************************************************)
\* the children lists of the descriptors of that id, one after the other
RECURSIVE ChildrenOfId(_, _)
ChildrenOfId(descs, id) ==
  IF descs = <<>> THEN <<>>
  ELSE (IF Head(descs).id = id /\ "children" \in DOMAIN Head(descs)
        THEN Head(descs).children ELSE <<>>)
         \o ChildrenOfId(Tail(descs), id)

\* after a pass, the children of `parent` are those of the descriptors:
\* one per id, the item there was under this parent for the id if there
\* was one and a new item otherwise; the children of other ids are gone
RECURSIVE ReconciledGen(_, _, _, _)
ReconciledGen(pre, post, parent, descs) ==
  LET kids    == post[parent].children
      oldKids == IF parent <= Len(pre) THEN pre[parent].children ELSE <<>>
  IN  /\ {post[c].id : c \in Range(kids)} = {descs[i].id : i \in 1..Len(descs)}
      /\ \A i, j \in 1..Len(kids) : i # j => post[kids[i]].id # post[kids[j]].id
      /\ \A c \in Range(kids) :
           /\ ~post[c].disposed
           /\ post[c].parent = parent
           /\ IF \E o \in Range(oldKids) : pre[o].id = post[c].id
              THEN c \in Range(oldKids)
              ELSE c > Len(pre)
           /\ ReconciledGen(pre, post, c, ChildrenOfId(descs, post[c].id))
      /\ \A o \in Range(oldKids) :
           (\A i \in 1..Len(descs) : descs[i].id # pre[o].id) =>
             o \notin Range(kids) /\ post[o].disposed

\* as C1 is stated: a discovery pass with a suite, following any passes,
\* leaves under every parent it visits exactly the ids of the parent's
\* descriptor list (of its lists, when several descriptors carry the
\* parent's id): an id that was under the parent before keeps its item, an
\* id that is absent has its item removed, a new id gets a new item
C1_AsStated ==
  [][LoadHasSuite(last') =>
       ReconciledGen(items, items', root, <<last'.evt.suite[1]>>)]_vars

\* no list of the descriptor has two descriptors of one id
RECURSIVE NoDuplicateIds(_)
NoDuplicateIds(descs) ==
  /\ \A i, j \in 1..Len(descs) : i # j => descs[i].id # descs[j].id
  /\ \A i \in 1..Len(descs) :
       "children" \in DOMAIN descs[i] => NoDuplicateIds(descs[i].children)

\* every item below `parent` has the label, description, location and error
\* of its descriptor
RECURSIVE MatchesDescriptors(_, _, _)
MatchesDescriptors(its, parent, descs) ==
  \A c \in Range(its[parent].children) :
    \A i \in 1..Len(descs) :
      descs[i].id = its[c].id =>
        /\ its[c].label = descs[i].label
        /\ its[c].description = descs[i].description
        /\ its[c].uri = IF Truthy(descs[i].file) THEN Some(fileToUri(descs[i].file[1]))
                        ELSE its[parent].uri
        /\ its[c].range = IF descs[i].line = None THEN None
                          ELSE Some(<<descs[i].line[1], 0, descs[i].line[1] + 1, 0>>)
        /\ its[c].error = IF descs[i].errored THEN descs[i].message ELSE None
        /\ MatchesDescriptors(its, c, IF "children" \in DOMAIN descs[i]
                                      THEN descs[i].children ELSE <<>>)

\* as C6 is stated: after a pass of the generation-stamping converter every
\* item the pass observed has the label, description, location and error of
\* its descriptor of the pass
C6_AsStated ==
  [][(LoadHasSuite(last') /\ NoDuplicateIds(<<last'.evt.suite[1]>>)) =>
       MatchesDescriptors(items', root, <<last'.evt.suite[1]>>)]_vars

\* the session has been ended
Ended(task) == \E i \in 1..Len(testRuns[task]) : testRuns[task][i].op = "end"

\* as C5 is stated: once 'finished' has ended the session registered under
\* a token, a state event with that token makes no call on the session, so
\* that the session is ended once
C5_AsStated ==
  [][(/\ IsStateEvent(last', {"test", "suite", "finished"})
      /\ RunKey(last'.evt) \in DOMAIN tasksByRunId
      /\ Ended(tasksByRunId[RunKey(last'.evt)].task)) =>
       testRuns'[tasksByRunId[RunKey(last'.evt)].task]
         = testRuns[tasksByRunId[RunKey(last'.evt)].task]]_vars

(***************************************************************************)
(* Run requests, retirement and cancellation of the current converter.     *)
(***************************************************************************)
\* the calls a step makes on the adapter
NewAdapterCallsMade == SubSeq(adapterCalls', Len(adapterCalls) + 1, Len(adapterCalls'))

\* the ids of the items of a list
IdsOf(its, list) == [i \in 1..Len(list) |-> its[list[i]].id]

\* the step handles a run request that calls runOrDebug at once
IsDirectRequest(l) ==
  l.type = "request" /\ ~(l.continuous /\ adapter.retire)

\* as C11 is stated: when the token of a request with a started run fires,
\* adapter.cancel is called exactly once, and no run() is called for the
\* request afterwards
C11_AsStated ==
  [][/\ (/\ last'.type = "cancel"
         /\ \E r \in 1..Len(runs) :
              runs[r].token = last'.token /\ runs[r].onCancellationRequested > 0) =>
          Len(SelectSeq(NewAdapterCallsMade, LAMBDA c : c.method = "cancel")) = 1
     /\ \A q \in 1..Len(requests) :
          requests[q].isCancellationRequested =>
            {r \in 1..Len(runs') : runs'[r].token = q} = {r \in 1..Len(runs) : runs[r].token = q}
    ]_vars

\* as C12 is stated: a debug request on an adapter without a debug method
\* calls neither adapter.run nor adapter.debug, registers no session and
\* creates no vscode.TestRun
C12_AsStated ==
  [][(IsDirectRequest(last') /\ last'.debug /\ ~adapter.debug) =>
       /\ adapterCalls' = adapterCalls
       /\ tasksByRunId' = tasksByRunId
       /\ testRuns' = testRuns]_vars

\* as C13 is stated: a request whose include list is omitted or empty runs
\* the direct children of the root as they are at the call
C13_AsStated ==
  [][(/\ IsDirectRequest(last')
      /\ last'.include \in {None, Some(<<>>)}
      /\ (last'.debug => adapter.debug)) =>
       NewAdapterCallsMade
         = <<[method |-> IF last'.debug THEN "debug" ELSE "run",
              tests |-> IdsOf(items, controllerItems)]>>]_vars

(***************************************************************************)
(* C13 (amended): a request whose include list is omitted calls            *)
(* adapter.run / adapter.debug once, with exactly the ids of the direct    *)
(* children of the root as they are at the call; a request whose include   *)
(* list is empty calls neither and reaches no run(); run() itself, given   *)
(* an empty list, passes the adapter an empty list of ids.                 *)
(***************************************************************************)
C13_OmittedRunsRootChildren ==
  [][/\ (IsDirectRequest(last') /\ (last'.debug => adapter.debug)) =>
          /\ last'.include = None =>
               /\ NewAdapterCallsMade
                    = <<[method |-> IF last'.debug THEN "debug" ELSE "run",
                         tests |-> IdsOf(items, controllerItems)]>>
               /\ Len(runs') = Len(runs) + 1
               /\ runs'[Len(runs')].testsToRun = controllerItems
          /\ last'.include = Some(<<>>) =>
               /\ adapterCalls' = adapterCalls
               /\ runs' = runs
               /\ testRuns' = testRuns
     /\ run(createTestRun(Here), Len(testRuns) + 1, Some(<<>>), FALSE, 0, TRUE).adapterCalls
          = Append(adapterCalls, [method |-> "run", tests |-> <<>>])
    ]_vars

\* a request without include list has run the two top-level items
C13_Witness ==
  /\ last.type = "request" /\ last.include = None /\ ~last.continuous
  /\ Len(controllerItems) = 2
  /\ Len(adapterCalls) = 1
  /\ adapterCalls[1].tests = IdsOf(items, controllerItems)

\* the continuous requests whose token has not fired
Continuous ==
  {q \in 1..Len(requests) :
     requests[q].continuous /\ adapter.retire /\ ~requests[q].isCancellationRequested}

\* the ids of a list that the converter knows, in order
KnownIds(ids) == SelectSeq(ids, LAMBDA id : id \in DOMAIN itemsById)

\* the adapter calls a retirement event leads to, from request q on, the
\* ids of an event with a list being `ids`
RECURSIVE RetireCalls(_, _, _)
RetireCalls(q, evt, ids) ==
  IF q > Len(requests) THEN <<>>
  ELSE (IF /\ q \in Continuous
           /\ (requests[q].debug => adapter.debug)
           /\ (evt.tests # None => ids # <<>>)
        THEN <<[method |-> IF requests[q].debug THEN "debug" ELSE "run",
                tests |-> IF evt.tests = None THEN IdsOf(items, controllerItems) ELSE ids]>>
        ELSE <<>>)
         \o RetireCalls(q + 1, evt, ids)

\* as C15 is stated: a retirement event with an id list runs, for every
\* continuous request whose token has not fired, exactly the ids of the list
C15_AsStated ==
  [][(last'.type = "retire" /\ last'.evt.tests # None) =>
       NewAdapterCallsMade = RetireCalls(1, last'.evt, last'.evt.tests[1])]_vars

(***************************************************************************)
(* C15 (amended): a retirement event runs (or debugs), for every           *)
(* continuous request whose token has not fired, exactly the ids of the    *)
(* event that the converter knows, never the set of the original request:  *)
(* no run when it knows none of them, and a run of all direct children of  *)
(* the root when the event lists no ids; for a request whose token has     *)
(* fired it runs nothing.                                                  *)
(***************************************************************************)
C15_RetiredIdsRerun ==
  [][last'.type = "retire" =>
       /\ NewAdapterCallsMade
            = RetireCalls(1, last'.evt,
                          IF last'.evt.tests = None THEN <<>> ELSE KnownIds(last'.evt.tests[1]))
       /\ \A r \in (Len(runs) + 1)..Len(runs') : runs'[r].token \in Continuous]_vars

\* a retirement of b and of an unknown id has run b alone, for a continuous
\* request made without include list
C15_Witness ==
  /\ last.type = "retire" /\ last.evt.tests = Some(<<"b", "zz">>)
  /\ Len(requests) = 1 /\ requests[1].continuous /\ requests[1].retire
  /\ Len(adapterCalls) >= 1
  /\ adapterCalls[Len(adapterCalls)] = [method |-> "run", tests |-> <<"b">>]

(***************************************************************************)
(* The run handler of the factory.                                         *)
(***************************************************************************)
\* the calls of TestConverter.run a step makes
NewConverterRuns == SubSeq(converterRuns', Len(converterRuns) + 1, Len(converterRuns'))

\* the tests of a list that the converter owns, in the order of the list
OwnedBy(tests, c) == SelectSeq(tests, LAMBDA t : t.converter = c)

(***************************************************************************)
(* C14: for a request that does not include the controller root, the run   *)
(* handler calls run once on each converter that owns a requested test     *)
(* and on no other, with exactly the requested tests the converter owns    *)
(* and a vscode.TestRun of its own; for a request that includes the        *)
(* controller root it calls run once on every registered converter, with   *)
(* the root of the converter.                                              *)
(***************************************************************************)
C14_RunPerConverter ==
  [][last'.type = "runHandler" =>
       LET tests == last'.tests
           new   == NewConverterRuns
           owners == {tests[i].converter : i \in 1..Len(tests)}
           registered == {converters[i].converter : i \in 1..Len(converters)}
       IN  /\ \A i, j \in 1..Len(new) :
                i # j => new[i].converter # new[j].converter /\ new[i].run # new[j].run
           /\ \A i \in 1..Len(new) :
                /\ new[i].debug = last'.debug
                /\ \A k \in 1..Len(converterRuns) : converterRuns[k].run # new[i].run
           /\ IF ctrlRoot \in Range(tests)
              THEN /\ {new[i].converter : i \in 1..Len(new)} = registered
                   /\ \A i \in 1..Len(new) :
                        new[i].tests = <<ConverterRoot(new[i].converter)>>
              ELSE /\ {new[i].converter : i \in 1..Len(new)} = owners
                   /\ \A i \in 1..Len(new) :
                        new[i].tests = OwnedBy(tests, new[i].converter)]_vars

\* a request for tests of two converters in turn has led to a call of run
\* on each, the first with its two tests
C14_Witness ==
  /\ last.type = "runHandler" /\ Len(last.tests) = 3
  /\ Len(converterRuns) = 2
  /\ Len(converterRuns[1].tests) = 2
  /\ converterRuns[1].converter # converterRuns[2].converter

(***************************************************************************)
(* The output of a run session.                                            *)
(***************************************************************************)
\* the ancestors of an item of a heap
RECURSIVE AncestorsOf(_, _)
AncestorsOf(its, x) ==
  IF its[x].parent = 0 THEN {} ELSE {its[x].parent} \cup AncestorsOf(its, its[x].parent)

\* the state lines with that symbol among the calls of a session
LinesWith(calls, symbols) ==
  SelectSeq(calls, LAMBDA c : /\ c.op = "appendOutput"
                              /\ c.stateLine
                              /\ c.output.symbol \in symbols)

\* the step handles a test event under a run id that has a session
IsSessionTestEvent ==
  IsStateEvent(last', {"test"}) /\ RunKey(last'.evt) \in DOMAIN tasksByRunId

(***************************************************************************)
(* C16: within one run session no item is announced twice: a test event    *)
(* announces only items that the session had not announced, they form one  *)
(* chain of ancestors, the set of the announced items of the session only  *)
(* grows, and the lines of the announced suites are written from the root  *)
(* towards the leaf.                                                       *)
(***************************************************************************)
C16_AnnouncedOnceInOrder ==
  [][IsSessionTestEvent =>
       LET runId  == RunKey(last'.evt)
           task   == tasksByRunId[runId].task
           before == tasksByRunId[runId].announcedTests
           after  == tasksByRunId'[runId].announcedTests
           added  == after \ before
           suites == {x \in added : Len(items'[x].children) # 0}
           downs  == LinesWith(NewCalls(task), {"down"})
       IN  /\ runId \in DOMAIN tasksByRunId'
           /\ tasksByRunId'[runId].task = task
           /\ before \subseteq after
           /\ \A x, y \in added :
                x = y \/ x \in AncestorsOf(items', y) \/ y \in AncestorsOf(items', x)
           /\ Len(downs) = Cardinality(suites)
           /\ \A i \in 1..Len(downs) :
                \E x \in suites : /\ downs[i].output.indent = Cardinality(AncestorsOf(items', x))
                                  /\ downs[i].output.label = items'[x].label
           /\ \A i, j \in 1..Len(downs) :
                i < j => downs[i].output.indent < downs[j].output.indent]_vars

\* a second test of a suite has passed: the session has the lines of the
\* two suites above it once and the lines of the two tests
C16_Witness ==
  /\ IsStateEvent(last, {"test"}) /\ last.registered
  /\ last.evt.state = "passed" /\ RefId(last.evt.test) = "b"
  /\ \E t \in 1..Len(testRuns) :
       /\ Len(LinesWith(testRuns[t], {"down"})) = 2
       /\ Len(LinesWith(testRuns[t], {"check"})) = 2
       /\ LinesWith(testRuns[t], {"down"})[1].output.indent = 0
       /\ LinesWith(testRuns[t], {"down"})[2].output.indent = 1

\* the step handles an event of one of these states on a test the
\* converter knows, under a run id that has a session
IsKnownTestEvent(states) ==
  /\ IsSessionTestEvent
  /\ last'.evt.state \in states
  /\ RefId(last'.evt.test) \in DOMAIN itemsById

\* the step writes the state line of the test of its event, after every
\* line that announces a suite, and every ancestor of the test is among the
\* announced items of the session
StateLineUnderAnnouncedSuites ==
  LET runId == RunKey(last'.evt)
      calls == NewCalls(tasksByRunId[runId].task)
      test  == itemsById'[RefId(last'.evt.test)]
      own   == {i \in 1..Len(calls) :
                  /\ calls[i].op = "appendOutput"
                  /\ calls[i].stateLine
                  /\ calls[i].output.symbol \in {"check", "cross", "circle"}}
      downs == {i \in 1..Len(calls) :
                  /\ calls[i].op = "appendOutput"
                  /\ calls[i].stateLine
                  /\ calls[i].output.symbol = "down"}
  IN  /\ Cardinality(own) = 1
      /\ \A i \in own : \A j \in downs : j < i
      /\ AncestorsOf(items', test) \subseteq tasksByRunId'[runId].announcedTests

(***************************************************************************)
(* C17: whenever the state line of a test (passed, failed, errored or      *)
(* skipped) is written to the output of a session, every ancestor suite    *)
(* of the test has been announced in the session, the lines of the suites  *)
(* announced by the same event coming first.                               *)
(***************************************************************************)
C17_AsStated ==
  [][IsKnownTestEvent({"passed", "failed", "errored", "skipped"}) =>
       StateLineUnderAnnouncedSuites]_vars

(***************************************************************************)
(* Test events on ids the converter does not know.                         *)
(***************************************************************************)
\* the step handles a test event on an unknown id under a run id that has
\* a session
IsUnknownTestEvent ==
  IsSessionTestEvent /\ RefId(last'.evt.test) \notin DOMAIN itemsById

\* the step makes no call on a session and leaves the tree alone
Ignored ==
  /\ testRuns' = testRuns
  /\ UNCHANGED <<items, itemsById, controllerItems, metadata>>

\* the step has made an item of the descriptor of its event, below that
\* suite, and the one call it makes on the session is the state call of the
\* event on the new item
GraftedBelow(suite) ==
  LET evt  == last'.evt
      info == evt.test.info
      task == tasksByRunId[RunKey(evt)].task
  IN  /\ info.id \in DOMAIN itemsById'
      /\ LET test == itemsById'[info.id]
         IN  /\ test \notin 1..Len(items)
             /\ items'[test].id = info.id
             /\ items'[test].label = info.label
             /\ items'[test].parent = suite
             /\ test \in Range(items'[suite].children)
             /\ NewCalls(task) = <<[op |-> StateCallOf(evt.state), test |-> test]>>
      /\ NoCallBut({task})

(***************************************************************************)
(* C18 as stated: under an active session a test event on an unknown id    *)
(* is ignored when it carries only the id; when it carries a descriptor,   *)
(* an item is made of the descriptor below the running suite of the run    *)
(* id and the state of the event is applied to it.                         *)
(***************************************************************************)
C18_AsStated ==
  [][IsUnknownTestEvent =>
       IF last'.evt.test.kind = "string" THEN Ignored
       ELSE /\ RunningSuite(Here, RunKey(last'.evt)) # 0
            /\ GraftedBelow(RunningSuite(Here, RunKey(last'.evt)))]_vars

(***************************************************************************)
(* C18, amended: under an active session a test event on an unknown id     *)
(* makes an item only when it carries a descriptor, its state is           *)
(* 'running' and a running suite is recorded for its run id: the item is   *)
(* made of the descriptor, attached below that suite, and reported as      *)
(* started.  Every other test event on an unknown id is ignored: no call   *)
(* on a session, no change of the tree.                                    *)
(***************************************************************************)
C18_UnknownTestGraftedOrIgnored ==
  [][IsUnknownTestEvent =>
       IF /\ last'.evt.test.kind = "object"
          /\ last'.evt.state = "running"
          /\ RunningSuite(Here, RunKey(last'.evt)) # 0
       THEN GraftedBelow(RunningSuite(Here, RunKey(last'.evt)))
       ELSE Ignored]_vars

\* the test n, reported running by descriptor while suite s runs, is an
\* item below s and started
C18_Witness ==
  /\ IsStateEvent(last, {"test"}) /\ last.registered
  /\ last.evt.test.kind = "object" /\ last.evt.state = "running"
  /\ "n" \in DOMAIN itemsById /\ "s" \in DOMAIN itemsById
  /\ items[itemsById["n"]].parent = itemsById["s"]
  /\ \E t \in 1..Len(testRuns) :
       /\ Len(testRuns[t]) > 0
       /\ testRuns[t][Len(testRuns[t])] = [op |-> "started", test |-> itemsById["n"]]

(***************************************************************************)
(* The running suite of a run id.                                          *)
(***************************************************************************)
\* the ids of the suites that have reported running and not completed
\* under a run id
OpenSuites(runId) == {p[2] : p \in {q \in suitesRunning : q[1] = runId}}

(***************************************************************************)
(* C19: under a run id that has a session, the suite recorded as the       *)
(* running suite is one that has reported running and not completed under  *)
(* the run id, no other such suite lies below it, and none is recorded     *)
(* when no suite has reported running and not completed.                   *)
(***************************************************************************)
C19_AsStated ==
  \A runId \in DOMAIN tasksByRunId :
    LET open     == OpenSuites(runId)
        recorded == RunningSuite(Here, runId)
    IN  IF open = {} THEN recorded = 0
        ELSE /\ recorded # 0
             /\ items[recorded].id \in open
             /\ \A id \in open :
                  id \in DOMAIN itemsById =>
                    recorded \notin AncestorsOf(items, itemsById[id])

(***************************************************************************)
(* The messages of a failure with decorations.                             *)
(***************************************************************************)
\* the step handles a failed or errored event with failure text and at
\* least one decoration, on a test the converter knows
IsDecoratedFailure ==
  /\ IsKnownTestEvent({"failed", "errored"})
  /\ Truthy(last'.evt.message)
  /\ last'.evt.decorations # None
  /\ Len(last'.evt.decorations[1]) >= 1

\* the location is at the line of the decoration, in the file of the
\* decoration or else in the file of the test of the event
AnchoredInFile(location, decoration) ==
  LET test == itemsById[RefId(last'.evt.test)]
  IN  /\ location # None
      /\ location[1].line = decoration.line
      /\ location[1].character = 0
      /\ IF Truthy(decoration.file)
         THEN location[1].uri = fileToUri(decoration.file[1])
         ELSE /\ items[test].uri # None
              /\ location[1].uri = items[test].uri[1]

\* as AnchoredInFile, but there is no location when neither the decoration
\* nor the test has a file
AnchoredWhereKnown(location, decoration) ==
  LET test == itemsById[RefId(last'.evt.test)]
  IN  IF ~Truthy(decoration.file) /\ items[test].uri = None
      THEN location = None
      ELSE AnchoredInFile(location, decoration)

\* the step makes one failed / errored call, on the test of the event, with
\* one message per decoration, in their order and with their texts, whose
\* locations are anchored in a file (strictly: every one of them; else:
\* where a file is known); and it writes the
\* failure text, its line endings made \r\n, to the output for the test
FailureReported(strictly) ==
  LET evt         == last'.evt
      task        == tasksByRunId[RunKey(evt)].task
      test        == itemsById[RefId(evt.test)]
      decorations == evt.decorations[1]
      calls       == NewCalls(task)
      reports     == {i \in 1..Len(calls) : calls[i].op \in {"failed", "errored"}}
  IN  /\ Cardinality(reports) = 1
      /\ \A i \in reports :
           /\ calls[i].op = evt.state
           /\ calls[i].test = test
           /\ Len(calls[i].messages) = Len(decorations)
           /\ \A k \in 1..Len(decorations) :
                /\ calls[i].messages[k].message = decorations[k].message
                /\ IF strictly
                   THEN AnchoredInFile(calls[i].messages[k].location, decorations[k])
                   ELSE AnchoredWhereKnown(calls[i].messages[k].location, decorations[k])
      /\ \E j \in 1..Len(calls) :
           /\ calls[j].op = "appendOutput"
           /\ ~calls[j].stateLine
           /\ calls[j].output = NormalizeEol(evt.message[1])
           /\ calls[j].test = Some(test)

(***************************************************************************)
(* C20 as stated: a failed or errored event with failure text and n >= 1   *)
(* decorations on a known test attaches exactly n messages with the        *)
(* failed / errored call, one per decoration, each at the line of the      *)
(* decoration in the file of the decoration or else of the test, and       *)
(* writes the failure text to the output of the session.                   *)
(***************************************************************************)
C20_AsStated ==
  [][IsDecoratedFailure => FailureReported(TRUE)]_vars

(***************************************************************************)
(* C20, amended: such an event attaches exactly n messages with the        *)
(* failed / errored call, one per decoration; a message is anchored at the *)
(* line of its decoration in the file of the decoration or else of the     *)
(* test, and has no location when neither names a file; the failure text,  *)
(* its line endings made \r\n, is written to the output of the session.    *)
(***************************************************************************)
C20_MessagePerDecoration ==
  [][IsDecoratedFailure => FailureReported(FALSE)]_vars

\* the test a has failed with two decorations: two messages, the first in
\* the file of its decoration, the second in the file of a
C20_Witness ==
  /\ IsStateEvent(last, {"test"}) /\ last.registered
  /\ last.evt.state = "failed" /\ RefId(last.evt.test) = "a"
  /\ last.evt.decorations # None
  /\ \E t \in 1..Len(testRuns) :
       /\ Len(testRuns[t]) > 0
       /\ LET call == testRuns[t][Len(testRuns[t])]
          IN  /\ call.op = "failed"
              /\ Len(call.messages) = 2
              /\ call.messages[1].location = Some([uri |-> fileToUri(FileV), line |-> 10,
                                                   character |-> 0])
              /\ call.messages[2].location = Some([uri |-> fileToUri(FileA), line |-> 2,
                                                   character |-> 0])

(***************************************************************************)
(* Teardown of a generation-stamping converter.                            *)
(***************************************************************************)
(***************************************************************************)
(* C21: once the adapter of the converter is unregistered, the root of     *)
(* the converter is disposed, no listener of a call of run() is still      *)
(* subscribed to the state events of the adapter, and every run session    *)
(* handed to the converter has been ended.                                 *)
(***************************************************************************)
C21_AsStated ==
  Disposed(Here) =>
    /\ \A r \in 1..Len(runs) : ~runs[r].listening
    /\ \A task \in 1..Len(testRuns) : Ended(task)

(***************************************************************************)
(* The refresh command.                                                    *)
(***************************************************************************)
\* the adapters the factory has a converter for
Registered == {converters[i].adapter : i \in 1..Len(converters)}

(***************************************************************************)
(* C22: refresh() without an id calls load() once on the adapter of every  *)
(* registered converter; refresh(id) calls load() on the adapter of the    *)
(* converter whose root has that id and on no other; the adapter of a      *)
(* converter that is not registered is not loaded.                         *)
(***************************************************************************)
C22_RefreshLoadsRegistered ==
  [][last'.type = "refresh" =>
       LET new    == NewAdapterCallsMade
           testId == last'.testId
           wanted == IF testId = None \/ testId[1] = "" THEN Registered
                     ELSE {a \in Registered :
                             \E i \in 1..Len(converters) :
                               /\ converters[i].adapter = a
                               /\ RootIds[converters[i].converter] = testId[1]}
       IN  /\ \A i \in 1..Len(new) : new[i].method = "load"
           /\ {new[i].adapter : i \in 1..Len(new)} = wanted
           /\ \A i, j \in 1..Len(new) : i # j => new[i].adapter # new[j].adapter]_vars

\* with two adapters registered, a refresh of the root of the second
\* converter has loaded the adapter of that converter alone
C22_Witness ==
  /\ last.type = "refresh" /\ last.testId = Some(RootIds[2])
  /\ Len(converters) = 2
  /\ adapterCalls = <<[method |-> "load", adapter |-> converters[2].adapter]>>
  /\ converters[2].converter = 2

(***************************************************************************)
(* Suite events.                                                           *)
(***************************************************************************)
(***************************************************************************)
(* C23: a suite event, running or completed, makes no call on any run      *)
(* session: the state of a suite is never set in answer to a suite event.  *)
(***************************************************************************)
C23_SuiteEventsSetNoState ==
  [][IsStateEvent(last', {"suite"}) => testRuns' = testRuns]_vars

\* a suite only known at run time has reported running under the session
\* of T1 while suite s ran: it is the running suite, and the session has
\* the calls that enqueued its tests and no other
C23_Witness ==
  /\ IsStateEvent(last, {"suite"}) /\ last.registered
  /\ last.evt.suite.kind = "object"
  /\ "dyn" \in DOMAIN itemsById
  /\ RunningSuite(Here, "T1") = itemsById["dyn"]
  /\ \E t \in 1..Len(testRuns) :
       /\ testRuns[t] # <<>>
       /\ \A i \in 1..Len(testRuns[t]) : testRuns[t][i].op = "enqueued"

(***************************************************************************)
(* Activation.                                                             *)
(***************************************************************************)
(***************************************************************************)
(* C24: when the Test Explorer is not available as the activate command    *)
(* runs, the command does nothing: no factory is made, nothing is          *)
(* registered with a hub, nothing is added to context.subscriptions.       *)
(***************************************************************************)
C24_NoHubNoActivation ==
  [][(last'.type = "activate" /\ ~last'.hasTestExplorer) =>
       /\ extension'.factory = extension.factory
       /\ extension'.factories = extension.factories
       /\ extension'.hub = extension.hub
       /\ extension'.subscriptions = extension.subscriptions
       /\ extension'.calls = extension.calls]_vars

\* the command has run without the Test Explorer after it had run with it:
\* the one factory and its registration are what the first run left
C24_Witness ==
  /\ last.type = "activate" /\ ~last.hasTestExplorer
  /\ extension.factory = 1
  /\ Len(extension.factories) = 1
  /\ Len(extension.hub) = 1
  /\ Len(extension.subscriptions) = 6

(***************************************************************************)
(* Generations.                                                            *)
(***************************************************************************)
(***************************************************************************)
(* C25: after every discovery pass of the generation-stamping converter    *)
(* that reports a suite, every item below the root of the converter        *)
(* carries the value generationCounter had when the pass began, whatever   *)
(* the passes of other converters have added to the counter, and the       *)
(* counter is one more.                                                    *)
(***************************************************************************)
C25_OneGenerationBelowRoot ==
  [][LoadHasSuite(last') =>
       /\ \A o \in ItemsBelow(items', items'[root].children) :
            /\ items'[o].data.generation = generationCounter
            /\ ~items'[o].disposed
       /\ generationCounter' = generationCounter + 1]_vars

\* a pass has replaced test b by test c after a pass of another converter:
\* the tree holds the items of the second descriptor, of generation 2
C25_Witness ==
  /\ LoadHasSuite(last) /\ last.evt.suite[1] = SuiteAC
  /\ generationCounter = 3
  /\ {items[o].id : o \in ItemsBelow(items, items[root].children)} = {"root", "a", "c"}
  /\ \A o \in ItemsBelow(items, items[root].children) : items[o].data.generation = 2
  /\ \E o \in 1..Len(items) : items[o].id = "b" /\ items[o].disposed

(***************************************************************************)
(* Test events that follow 'started' at once.                              *)
(***************************************************************************)
\* the calls of run() of the generation-stamping converter whose promise
\* was resolved by the 'started' event of that run id
StartedWith(runId) ==
  {r \in 1..Len(runs) : runs[r].started # None /\ RunKey(runs[r].started[1]) = runId}

\* as C26 is stated: a test event for a known test that the adapter fires
\* after the 'started' event of its run id is applied to the session of a
\* run that this 'started' event has started, also when run() has not yet
\* gone on after its await
C26_AsStated ==
  [][(/\ IsStateEvent(last', {"test"})
      /\ RefId(last'.evt.test) \in DOMAIN itemsById
      /\ StartedWith(RunKey(last'.evt)) # {}) =>
       \E r \in StartedWith(RunKey(last'.evt)) :
         \E i \in 1..Len(NewCalls(runs[r].run)) :
           /\ NewCalls(runs[r].run)[i].op = "setState"
           /\ NewCalls(runs[r].run)[i].state = convertedStates(last'.evt.state)]_vars

(***************************************************************************)
(* Concurrent runs of the current converter.  The user issues run and      *)
(* debug requests; the adapter answers each call of run() or debug() it    *)
(* received with a 'started' event and later a 'finished' event, both      *)
(* under a run id of that call alone.  The calls are answered in any       *)
(* order.                                                                  *)
(***************************************************************************)
\* the run ids the adapter gives its runs, in the order of the calls
RunTokens == <<"T1", "T2", "T3", "T4">>

\* the calls of run() and debug() the adapter has received
RunCalls == {k \in 1..Len(adapterCalls) : adapterCalls[k].method \in {"run", "debug"}}

\* the run id of the events of the call k
TokenOf(k) == RunTokens[Cardinality({j \in RunCalls : j <= k})]

\* the adapter fires the 'started' event of the call k
AdapterStarts(k) ==
  /\ k \in RunCalls /\ k \notin DOMAIN adapterRuns
  /\ LET evt == [type |-> "started", testRunId |-> Some(TokenOf(k))]
     IN  /\ Becomes(FireTestStates(Here, evt))
         /\ suitesRunning' = StillRunning(evt, DOMAIN itemsById')
         /\ last' = [type |-> "started", evt |-> evt,
                     registered |-> RunKey(evt) \in DOMAIN tasksByRunId]
  /\ adapterRuns' = (k :> [phase |-> "started", runs |-> Len(runs)]) @@ adapterRuns
  /\ UNCHANGED <<adapter, loads, stateEvents, discovering>>

\* the adapter fires the 'finished' event of the call k
AdapterFinishes(k) ==
  /\ k \in DOMAIN adapterRuns /\ adapterRuns[k].phase = "started"
  /\ LET evt == [type |-> "finished", testRunId |-> Some(TokenOf(k))]
     IN  /\ Becomes(FireTestStates(Here, evt))
         /\ suitesRunning' = StillRunning(evt, DOMAIN itemsById')
         /\ last' = [type |-> "finished", evt |-> evt,
                     registered |-> RunKey(evt) \in DOMAIN tasksByRunId]
  /\ adapterRuns' = [adapterRuns EXCEPT ![k].phase = "finished"]
  /\ UNCHANGED <<adapter, loads, stateEvents, discovering>>

AdapterStartsSome == \E k \in 1..Len(adapterCalls) : AdapterStarts(k)
AdapterFinishesSome == \E k \in 1..Len(adapterCalls) : AdapterFinishes(k)

NextRuns ==
  \/ /\ loads < MaxLoads
     /\ \E evt \in RunLoadEvents : TestsFinished(evt)
  \/ /\ Len(requests) < MaxConcurrentRuns
     /\ \E req \in RunRequests : RunRequest(req.debug, req.include)
  \/ AdapterStartsSome
  \/ AdapterFinishesSome

SpecRuns == Init /\ [][NextRuns]_vars

\* the steps of AdapterStartsSome and of AdapterFinishesSome, told by what
\* they do to adapterRuns
StartsOwed ==
  \E k \in RunCalls :
    /\ k \notin DOMAIN adapterRuns
    /\ adapterRuns' = (k :> [phase |-> "started", runs |-> Len(runs)]) @@ adapterRuns
FinishesOwed ==
  \E k \in DOMAIN adapterRuns :
    /\ adapterRuns[k].phase = "started"
    /\ adapterRuns' = [adapterRuns EXCEPT ![k].phase = "finished"]

\* the adapter does fire the events it owes
SpecRunsFair == SpecRuns /\ WF_adapterRuns(StartsOwed) /\ WF_adapterRuns(FinishesOwed)

\* two calls of run() have called the adapter, and the adapter has then
\* fired the 'started' events of both calls and no 'finished' event
BothStarted ==
  /\ Len(runs) = 2 /\ Cardinality(RunCalls) = 2
  /\ DOMAIN adapterRuns = RunCalls
  /\ \A k \in RunCalls : adapterRuns[k].phase = "started" /\ adapterRuns[k].runs = 2

\* the sessions of the two calls of run() are registered, one under each of
\* the two run ids
RegisteredApart ==
  /\ {"T1", "T2"} \subseteq DOMAIN tasksByRunId
  /\ {tasksByRunId["T1"].task, tasksByRunId["T2"].task} = {runs[1].run, runs[2].run}

\* as C27 is stated: when two run requests are issued before the adapter
\* fires a 'started' event, and the adapter then fires 'started' for T1 and
\* for T2, each session is registered under one of the two run ids and the
\* two sessions under different ones
C27_AsStated == BothStarted => RegisteredApart

(***************************************************************************)
(* C28 as stated: every session made by createTestRun is ended at some     *)
(* time, the adapter firing 'started' and later 'finished' for every call  *)
(* of run() or debug() it receives.                                        *)
(***************************************************************************)
C28_AsStated ==
  \A task \in 1..MaxConcurrentRuns :
    (Len(testRuns) >= task) ~> (Len(testRuns) >= task /\ Ended(task))

(***************************************************************************)
(* The id map of the generation-stamping converter.                        *)
(***************************************************************************)
\* the root of the converter and the items below it
LiveGen(its) == {root} \cup ItemsBelow(its, its[root].children)

\* as C29 is stated: after every discovery pass itemsById has an entry for
\* exactly the ids of the root and of the items in the tree of the
\* converter, and every entry is an item that is in the tree
C29_AsStated ==
  [][IsLoad(last') =>
       /\ DOMAIN itemsById' = {items'[o].id : o \in LiveGen(items')}
       /\ \A id \in DOMAIN itemsById' : itemsById'[id] \in LiveGen(items')]_vars

(***************************************************************************)
(* The id map of the current converter when a discovery reports nothing.   *)
(***************************************************************************)
\* as C30 is stated: a 'finished' discovery event with neither a suite nor
\* an error message leaves itemsById of the current converter as it was, so
\* that the ids of the tree in place are still known to later test events
C30_AsStated == [][LoadHasNothing(last') => itemsById' = itemsById]_vars

(***************************************************************************)
(* Owner metadata of the items of the current converter.                   *)
(***************************************************************************)
\* as C31 is stated: every item in the tree of the controller has metadata,
\* the discovery-error node and the items grafted at run time included, and
\* no run request fails in the lookup of the converter of a requested item
C31_AsStated ==
  /\ \A o \in ItemsBelow(items, controllerItems) : o \in DOMAIN metadata
  /\ (last.type = "run" => ~last.threw)

(***************************************************************************)
(* Cancellation after the end of a session.                                *)
(***************************************************************************)
\* the calls of run() made for the request of that token
RunsOf(token) == {r \in 1..Len(runs) : runs[r].token = token}

\* as C32 is stated: when the token of a request fires after the sessions of
\* all its runs have been ended by their 'finished' events, adapter.cancel
\* is not called
C32_AsStated ==
  [][(/\ last'.type = "cancel"
      /\ RunsOf(last'.token) # {}
      /\ \A r \in RunsOf(last'.token) : Ended(runs[r].run)) =>
       SelectSeq(NewAdapterCallsMade, LAMBDA c : c.method = "cancel") = <<>>]_vars

(***************************************************************************)
(* The text of a test event in the raw output of its session.              *)
(***************************************************************************)
\* the calls of appendOutput among `calls` that write that text
RawOutput(calls, text) ==
  SelectSeq(calls, LAMBDA c : /\ c.op = "appendOutput"
                              /\ ~c.stateLine
                              /\ c.output = NormalizeEol(text))

\* as C33 is stated: a test event for a known test that carries a message
\* appends the text of the message to the output of its session once,
\* whatever its state, and whether the item has a uri or not
C33_AsStated ==
  [][(/\ IsKnownTestEvent(TestStateNames)
      /\ Truthy(last'.evt.message)) =>
       Len(RawOutput(NewCalls(tasksByRunId[RunKey(last'.evt)].task),
                     last'.evt.message[1])) = 1]_vars

(***************************************************************************)
(* The order of the calls on one session.                                  *)
(***************************************************************************)
\* the calls that set the state of a test
StateOps == {"started", "passed", "failed", "errored", "skipped"}

\* no enqueued mark follows a state call
EnqueuedFirst(calls) ==
  \A i, j \in 1..Len(calls) :
    (i < j /\ calls[i].op \in StateOps) => calls[j].op # "enqueued"

\* the session is registered under a run id
IsRegistered(task) == \E runId \in DOMAIN tasksByRunId : tasksByRunId[runId].task = task

(***************************************************************************)
(* C34: on every session the enqueued marks come before every started,     *)
(* passed, failed, errored and skipped call, and a step makes such a call   *)
(* only on a session that is registered under a run id.                    *)
(***************************************************************************)
C34_EnqueuedBeforeStates ==
  [][/\ \A task \in 1..Len(testRuns') : EnqueuedFirst(testRuns'[task])
     /\ \A task \in 1..Len(testRuns) :
          (\E i \in 1..Len(NewCalls(task)) : NewCalls(task)[i].op \in StateOps) =>
            IsRegistered(task)]_vars

\* a session holds its enqueued marks and, after them, two state calls
C34_Witness ==
  \E task \in 1..Len(testRuns) :
    /\ Len(testRuns[task]) >= 3
    /\ testRuns[task][1].op = "enqueued"
    /\ Cardinality({i \in 1..Len(testRuns[task]) : testRuns[task][i].op \in StateOps}) = 2

(***************************************************************************)
(* The progress indicators of discovery.                                   *)
(***************************************************************************)
\* the indicators that are open
OpenIndicators(p) == {i \in 1..Len(p) : p[i] = "open"}

(***************************************************************************)
(* C35: at most one progress indicator of the converter is open at a time; *)
(* an indicator is closed by a 'finished' discovery event or by its timer   *)
(* and by no other step, a 'finished' discovery event leaves no indicator   *)
(* open, and every indicator opened is closed at some time.                *)
(***************************************************************************)
C35_IndicatorsClose ==
  /\ [](Cardinality(OpenIndicators(progress)) <= 1)
  /\ [][/\ (OpenIndicators(progress) \ OpenIndicators(progress') # {}) =>
             last'.type \in {"load", "timeout"}
        /\ IsLoad(last') => OpenIndicators(progress') = {}]_vars
  /\ \A i \in 1..(MaxPasses + 1) :
       (Len(progress) >= i) ~> (Len(progress) >= i /\ progress[i] = "closed")

\* a second indicator is open after the first one was closed by a
\* 'finished' discovery event
C35_Witness ==
  /\ Len(progress) = 2 /\ progress[1] = "closed" /\ progress[2] = "open"
  /\ loads = 1

(***************************************************************************)
(* The busy flag of the root of the generation-stamping converter:         *)
(* discovery events of the adapter and calls of refresh(), the promise of  *)
(* adapter.load() being settled at any time after the call.                *)
(***************************************************************************)
\* refresh() is called
RefreshGen ==
  /\ Becomes(refreshGen(Here))
  /\ last' = [type |-> "refreshConverter"]
  /\ UNCHANGED <<adapter, loads, stateEvents, suitesRunning, adapterRuns, discovering>>

\* the promise of adapter.load() is settled and a call of refresh() goes on
RefreshContinues ==
  /\ refreshing > 0
  /\ Becomes(refreshContinuation(Here))
  /\ last' = [type |-> "refreshReturns"]
  /\ UNCHANGED <<adapter, loads, stateEvents, suitesRunning, adapterRuns, discovering>>

NextBusy ==
  \/ TestsStartedGen
  \/ /\ loads < MaxBusyPasses
     /\ \E evt \in GenRunLoadEvents : TestsFinishedGen(evt)
  \/ /\ Len(adapterCalls) < MaxBusyRefreshes
     /\ RefreshGen
  \/ RefreshContinues

SpecBusy == InitGen /\ [][NextBusy]_vars

\* as C36 is stated: the root is busy from a 'started' discovery event to
\* the next 'finished' one, and it is not busy when no discovery pass is
\* under way and no call of refresh() awaits adapter.load()
C36_AsStated ==
  /\ discovering => items[root].busy
  /\ (~discovering /\ refreshing = 0) => ~items[root].busy

(***************************************************************************)
(* Retirement events.  Both converters subscribe to adapter.retire in      *)
(* their constructor; a behaviour is of one converter or of the other, as  *)
(* its first state says, and the converter that stamps generations is the  *)
(* one whose id map holds the id of its root.                              *)
(***************************************************************************)
IsGenConverter == rootId \in DOMAIN itemsById

\* the adapter of the generation-stamping converter fires a retirement event
RetireGen(evt) ==
  /\ adapter.retire
  /\ Becomes(retireHandlerGen([Here EXCEPT !.invalidations = <<>>], evt))
  /\ last' = [type |-> "retire", evt |-> evt]
  /\ UNCHANGED <<adapter, loads, stateEvents, suitesRunning, adapterRuns, discovering>>

\* either converter after its constructor, for an adapter with a retire event
InitRetire ==
  /\ adapter \in {[debug |-> d, retire |-> TRUE] : d \in BOOLEAN}
  /\ \/ InitAnyAdapter
     \/ InitGenConverter

NextRetire ==
  \/ /\ ~IsGenConverter
     /\ loads < MaxRetireLoads
     /\ \E evt \in RunLoadEvents : TestsFinished(evt)
  \/ /\ ~IsGenConverter
     /\ \E evt \in RetireEvents : Retire(evt)
  \/ /\ IsGenConverter
     /\ loads < MaxRetireLoads
     /\ \E evt \in GenRunLoadEvents : TestsFinishedGen(evt)
  \/ /\ IsGenConverter
     /\ \E evt \in RetireEvents : RetireGen(evt)

SpecRetire == InitRetire /\ [][NextRetire]_vars

\* the items that the calls invalidate by name
InvalidatedItems(calls) ==
  UNION {Range(calls[i].items[1]) : i \in {j \in DOMAIN calls : calls[j].items # None}}

\* whether a call invalidates the results of all the tests of the controller
InvalidatesAll(calls) == \E i \in DOMAIN calls : calls[i].items = None

\* the items that the id map holds for the ids of a list
KnownListed(tests) == {itemsById[id] : id \in Range(tests) \cap DOMAIN itemsById}

\* C37: a retirement event without an id list invalidates the results of all
\* the tests of the converter (of the whole controller in the current
\* converter, of the root item above all its tests in the generation-stamping
\* one); a retirement event with an id list invalidates the items that the id
\* map holds for the listed ids, and nothing else
C37_RetireInvalidatesListed ==
  [][last'.type = "retire" =>
       IF last'.evt.tests = None
       THEN IF IsGenConverter
            THEN /\ InvalidatedItems(invalidations') = {root}
                 /\ ~InvalidatesAll(invalidations')
            ELSE /\ InvalidatesAll(invalidations')
                 /\ Len(invalidations') = 1
       ELSE /\ ~InvalidatesAll(invalidations')
            /\ InvalidatedItems(invalidations') = KnownListed(last'.evt.tests[1])]_vars

\* a retirement event has listed a known id and an unknown one, and the item
\* of the known id has been invalidated
C37_Witness ==
  /\ last.type = "retire"
  /\ last.evt.tests = Some(<<"b", "zz">>)
  /\ "b" \in DOMAIN itemsById
  /\ InvalidatedItems(invalidations) = {itemsById["b"]}

(***************************************************************************)
(* Disposal of the factory, which the extension asks for when native       *)
(* testing is switched off.  The Test Explorer keeps the factory it was    *)
(* given and goes on registering and unregistering adapters with it.       *)
(***************************************************************************)
\* the factory is disposed
DisposeFactory ==
  /\ Becomes(disposeFactory(Here))
  /\ last' = [type |-> "disposeFactory"]
  /\ UNCHANGED <<adapter, loads, stateEvents, suitesRunning, adapterRuns, discovering>>

NextDispose ==
  \/ /\ Len(converterObjs) < MaxConverters
     /\ \E a \in Adapters : RegisterTestAdapter(a)
  \/ \E a \in Adapters : UnregisterTestAdapter(a)
  \/ DisposeFactory
  \/ /\ stateEvents < MaxHandlerCalls
     /\ \E tests \in FactoryRequests : \E debug \in BOOLEAN : RunHandlerCalled(tests, debug)

SpecDispose == InitFactory /\ [][NextDispose]_vars

\* as C38 is stated: once the factory is disposed, every converter it held
\* is disposed and it holds none, and a registration that follows creates
\* no converter
C38_AsStated ==
  [][/\ last'.type = "disposeFactory" =>
          /\ converters' = <<>>
          /\ \A i \in 1..Len(converters') :
                converterObjs'[converters'[i].converter].disposed
     /\ (last.type = "disposeFactory" /\ last'.type = "register") =>
          /\ converterObjs' = converterObjs
          /\ converters' = converters]_vars

====
